---- MODULE Spec2Model ----
(***************************************************************************)
(* Provider adapters of aioncli: the OpenAI-compatible adapter             *)
(* (openaiContentGenerator.ts), the Anthropic-style adapter and the two    *)
(* gateway (Bedrock) adapters (bedrockContentGenerator.ts).                *)
(*                                                                         *)
(* Strings the code inspects character by character (message text, tool    *)
(* argument buffers) are sequences of one-character strings; identifiers   *)
(* and names are TLA+ strings, "" standing for an absent/empty (falsy)     *)
(* value.                                                                  *)
(***************************************************************************)
EXTENDS Integers, Sequences, FiniteSets, TLC

VARIABLES
  hygPc,      \* hygiene run: "input" | "cleaned" | "merged" | "twice"
  hygIn,      \* the provider-native message list handed to the hygiene pass
  hygOut,     \* the list after the steps applied so far
  hygTwice,   \* the result of running the whole pass again on hygOut
  adapter,    \* the adapter of a conversion: "openai" | "anthropic" | "bedrock"
  request,    \* the canonical request: [contents: list of turns, single: shape]
  sendPc,     \* "ready" | "sent" | "resent" (the same request sent again)
  sendOp,     \* the operation that sent: "generate" | "generateStream"
  sent,       \* the provider-native message list handed to the provider
  previous,   \* the list the call before handed to the provider (history)
  now,        \* the clock, in milliseconds since the adapter was built
  kind,       \* the streaming adapter instance: "openai" | "bedrockUses"
              \* (the class holding streamingToolUses) | "bedrockCalls" (the
              \* class holding streamingToolCalls)
  acc,        \* the instance's accumulator map: index -> accumulated call
  genPc,      \* per stream, the generator's position: "created" |
              \* "awaiting" (the provider's next event) | "yielded" (a
              \* response, suspended) | "done" | "failed" | "cancelled"
  jsonReq,    \* per stream: isJsonSchemaRequest
  pending,    \* per stream: the indices the generator deletes when resumed
  tokens,     \* per stream: the generator's inputTokens local
  events,     \* per stream: the provider events handled so far (history)
  out,        \* per stream: the responses yielded to the consumer (history)
  nextSerial, \* the insertion number the next accumulator entry gets
  leftover,   \* per stream (history): the accumulator held entries when
              \* the generator body started
  overlapped, \* per stream (history): another stream was active at the
              \* same time
  callAdapter,\* the adapter of a call: "openai" | "anthropic" |
              \* "bedrockUses" | "bedrockCalls"
  callOp,     \* "generate" | "generateStream"
  callPc,     \* "ready" | "called" (provider request in flight) | "caught"
              \* (the provider call raised) | "retry" (the retry utility
              \* holds the error thrown to it) | "returned" | "generator"
              \* (returned, not pulled yet) | "iterating" | "yielded" |
              \* "finished" | "abandoned" | "threw" (the caller observed a
              \* failure)
  phase,      \* where the provider call failed: "request" | "setup" |
              \* "iterate"
  attempts,   \* attempts the retry utility has made
  raised,     \* the error the provider call raised on the latest attempt
  thrown,     \* the error the adapter threw to the retry utility
  observed,   \* the error the caller observed
  telemetry,  \* the API events logged, in order
  yielded,    \* the number of responses the caller has received
  decoder,    \* the adapter decoding a provider answer: "openai" |
              \* "anthropic" | "bedrockUses" | "bedrockCalls"
  decodeOp,   \* "generate" | "generateStream"
  decodePc,   \* "ready" | "decoded"
  jsonSchema, \* the request carried responseJsonSchema with the JSON
              \* mime type
  provided,   \* the provider's answer: a completion, a message, or the
              \* chunks of a stream
  decoded,    \* the canonical responses handed to the caller
  sanitizer,  \* the schema sanitizer called: "openai" | "bedrockUses" |
              \* "bedrockCalls"
  schemaPc,   \* "given" | "sanitized"
  given,      \* the objects of the caller's schema when the sanitizer was
              \* called (history)
  heap,       \* the objects that exist: address -> fields
  schema,     \* the caller's schema: a reference to its root object
  sanitized,  \* the sanitizer's result: a reference to its root object
  fbVersion,  \* the handleFallback called: "policy" | "preview" | "flash"
  fbPc,       \* "called" | "handler" | "rotateAfterHandler" | "rotate" |
              \* "oauth" | "returned"
  authType,   \* the authType argument
  failedModel, \* the failedModel argument
  errorKind,  \* the class of the error argument
  env,        \* the value of the API-key environment variable
  config,     \* the Config object: key, handler, modes, active model
  atCall,     \* the Config object when handleFallback was called (history)
  intent,     \* what the external handler answered
  rotations,  \* the number of times refreshAuth succeeded (history)
  transitions, \* the number of availability transitions applied (history)
  fbResult,   \* what handleFallback returned: "true" | "false" | "null",
              \* or "throw" for an error thrown to the caller
  rotation,   \* the last call of tryRotateApiKey: what it saw, whether
              \* it called refreshAuth, what it returned (history)
  selection,  \* what the policy chain gave: "empty" | "invalid" |
              \* "silent" | "prompt"
  fallbackModel, \* the fallback model of the policy fallback
  authPc,     \* validateNonInteractiveAuth: "called" | "returned" |
              \* "exited"
  processEnv, \* process.env: variable name -> value, "" for unset
  configuredAuthType, \* the auth type of the stored settings, "" for none
  enforcedType, \* settings.merged.security.auth.enforcedType, "" for none
  useExternalAuth, \* the useExternalAuth argument
  envAuthType, \* what getAuthTypeFromEnv returned, "" for undefined
  authResult  \* the auth type returned, or the message of the error

hygVars == <<hygPc, hygIn, hygOut, hygTwice>>
sendVars == <<adapter, request, sendPc, sendOp, sent, previous, now>>
streamVars == <<kind, acc, genPc, jsonReq, pending, tokens, events, out,
                nextSerial, leftover, overlapped>>

callVars == <<callAdapter, callOp, callPc, phase, attempts, raised, thrown,
              observed, telemetry, yielded>>

decodeVars == <<decoder, decodeOp, decodePc, jsonSchema, provided, decoded>>

schemaVars == <<sanitizer, schemaPc, given, heap, schema, sanitized>>

fallbackVars == <<fbVersion, fbPc, authType, failedModel, errorKind, env,
                  config, atCall, intent, rotations, transitions, fbResult,
                  rotation, selection, fallbackModel>>

authVars == <<authPc, processEnv, configuredAuthType, enforcedType,
              useExternalAuth, envAuthType, authResult>>

vars == <<hygVars, sendVars, streamVars, callVars, decodeVars, schemaVars,
          fallbackVars, authVars>>

\* What each part of the model leaves alone.
hygOthers == <<sendVars, streamVars, callVars, decodeVars,
               schemaVars, fallbackVars, authVars>>
sendOthers == <<hygVars, streamVars, callVars, decodeVars,
               schemaVars, fallbackVars, authVars>>
streamOthers == <<hygVars, sendVars, callVars, decodeVars,
               schemaVars, fallbackVars, authVars>>
callOthers == <<hygVars, sendVars, streamVars, decodeVars, schemaVars,
                fallbackVars, authVars>>
decodeOthers == <<hygVars, sendVars, streamVars, callVars, schemaVars,
                  fallbackVars, authVars>>
schemaOthers == <<hygVars, sendVars, streamVars, callVars, decodeVars,
                  fallbackVars, authVars>>
fallbackOthers == <<hygVars, sendVars, streamVars, callVars, decodeVars,
                    schemaVars, authVars>>
authOthers == <<hygVars, sendVars, streamVars, callVars, decodeVars,
                schemaVars, fallbackVars>>

Streams == {1, 2}
EmptyMap == << >>
NoTokens == [inputTokens |-> 0, outputTokens |-> 0]

\* An error object: ident tells the object the provider raised from an
\* Error the adapter constructed.
ErrorObject(ident, name, message, code, type) ==
  [ident |-> ident, name |-> name, message |-> message, code |-> code,
   type |-> type]

NoError == ErrorObject("none", "", "", "", "")

\* The Config object: the API key in use, whether a content generator
\* config and an external fallback handler exist, the fallback modes and
\* the active model.
ConfigObject(apiKey, configured, handler, fallbackMode, previewBypass, previewFallback, activeModel) ==
  [apiKey |-> apiKey, configured |-> configured, handler |-> handler,
   fallbackMode |-> fallbackMode, previewBypass |-> previewBypass,
   previewFallback |-> previewFallback, activeModel |-> activeModel]

NoConfig == ConfigObject(<<>>, FALSE, FALSE, FALSE, FALSE, FALSE, "")

\* No call of tryRotateApiKey yet.
NoRotation ==
  [called |-> FALSE, authType |-> "", newApiKey |-> <<>>, configured |-> FALSE,
   apiKey |-> <<>>, refreshAuth |-> "not called", result |-> FALSE]

AuthIdle ==
  /\ authPc = "idle"
  /\ processEnv = <<>>
  /\ configuredAuthType = ""
  /\ enforcedType = ""
  /\ useExternalAuth = FALSE
  /\ envAuthType = ""
  /\ authResult = ""

FallbackIdle ==
  /\ fbVersion = "none"
  /\ fbPc = "idle"
  /\ authType = "none"
  /\ failedModel = ""
  /\ errorKind = "none"
  /\ env = <<>>
  /\ config = NoConfig
  /\ atCall = NoConfig
  /\ intent = "none"
  /\ rotations = 0
  /\ transitions = 0
  /\ fbResult = "none"
  /\ rotation = NoRotation
  /\ selection = "none"
  /\ fallbackModel = ""

SchemaIdle ==
  /\ sanitizer = "none"
  /\ schemaPc = "idle"
  /\ given = EmptyMap
  /\ heap = EmptyMap
  /\ schema = [kind |-> "undefined"]
  /\ sanitized = [kind |-> "undefined"]

DecodeIdle ==
  /\ decoder = "none"
  /\ decodeOp = "none"
  /\ decodePc = "idle"
  /\ jsonSchema = FALSE
  /\ provided = <<>>
  /\ decoded = <<>>

CallIdle ==
  /\ callAdapter = "none"
  /\ callOp = "none"
  /\ callPc = "idle"
  /\ phase = "none"
  /\ attempts = 0
  /\ raised = NoError
  /\ thrown = NoError
  /\ observed = NoError
  /\ telemetry = <<>>
  /\ yielded = 0

StreamIdle ==
  /\ kind = "none"
  /\ acc = EmptyMap
  /\ genPc = [s \in Streams |-> "idle"]
  /\ jsonReq = [s \in Streams |-> FALSE]
  /\ pending = [s \in Streams |-> {}]
  /\ tokens = [s \in Streams |-> NoTokens]
  /\ events = [s \in Streams |-> <<>>]
  /\ out = [s \in Streams |-> <<>>]
  /\ nextSerial = 1
  /\ leftover = [s \in Streams |-> FALSE]
  /\ overlapped = [s \in Streams |-> FALSE]

(***************************************************************************)
(* Bounds of the model.                                                    *)
(***************************************************************************)
MaxMsgs == 3
MaxTurns == 3
MaxTicks == 1
MaxEvents == 4
MaxOverlapEvents == 3
MaxResponses == 2

(***************************************************************************)
(* Small sequence helpers.                                                 *)
(***************************************************************************)
SeqsUpTo(S, n) == UNION {[1..k -> S] : k \in 0..n}

RECURSIVE Flatten(_)
Flatten(ss) == IF ss = <<>> THEN <<>> ELSE Head(ss) \o Flatten(Tail(ss))

Range(s) == {s[i] : i \in DOMAIN s}

(***************************************************************************)
(* OpenAI chat messages.  content is null or a string; has_tool_calls is   *)
(* `'tool_calls' in message && message.tool_calls` (an array, even an      *)
(* empty one, is truthy).                                                  *)
(***************************************************************************)
NullContent == [str |-> FALSE, s |-> <<>>]
Str(s) == [str |-> TRUE, s |-> s]

ToolCall(id, name) == [id |-> id, name |-> name]

Msg(role, content, has, calls, tcid) ==
  [role |-> role, content |-> content, has_tool_calls |-> has,
   tool_calls |-> calls, tool_call_id |-> tcid]

IsWhitespace(c) == c = " "

\* String.prototype.trim
RECURSIVE trim(_)
trim(s) ==
  IF s = <<>> THEN <<>>
  ELSE IF IsWhitespace(Head(s)) THEN trim(Tail(s))
  ELSE IF IsWhitespace(s[Len(s)]) THEN trim(SubSeq(s, 1, Len(s) - 1))
  ELSE s

\* typeof message.content === 'string' && message.content.trim()
HasText(m) == m.content.str /\ trim(m.content.s) # <<>>

IsAssistantWithCalls(m) == m.role = "assistant" /\ m.has_tool_calls

\* No message taken for a tool response.
NeverToolResponse(m) == FALSE

IsToolResponse(m) == m.role = "tool" /\ m.tool_call_id # ""

\* First pass: the ids the loop over the assistant messages' tool calls adds.
CollectToolCallIds(messages) ==
  UNION {{tc.id : tc \in Range(SelectSeq(m.tool_calls, LAMBDA c : c.id # ""))} :
           m \in {x \in Range(messages) : IsAssistantWithCalls(x)}}

\* First pass: `else if`, so a message counted as an assistant message with
\* tool calls is not looked at as a tool response.
CollectToolResponseIds(messages) ==
  {messages[i].tool_call_id :
     i \in {k \in DOMAIN messages :
              ~IsAssistantWithCalls(messages[k]) /\ IsToolResponse(messages[k])}}

\* No call filtered out.
KeepAllToolCalls(calls, responseIds) == calls

\* message.tool_calls.filter(tc => tc.id && responseIds.has(tc.id))
FilterValidToolCalls(calls, responseIds) ==
  SelectSeq(calls, LAMBDA tc : tc.id # "" /\ tc.id \in responseIds)

\* One assistant message with tool calls, as both filtering loops treat it:
\* the sequence of messages pushed (none or one).
CleanAssistant(m, responseIds) ==
  LET valid == FilterValidToolCalls(m.tool_calls, responseIds)
  IN IF Len(valid) > 0
       THEN <<[m EXCEPT !.tool_calls = valid]>>
     ELSE IF HasText(m)
       THEN <<[m EXCEPT !.has_tool_calls = FALSE, !.tool_calls = <<>>]>>
     ELSE <<>>

\* Second pass of cleanOrphanedToolCalls, from message i on, `added` being
\* addedToolResponseIds.
RECURSIVE SecondPass(_, _, _, _, _)
SecondPass(messages, i, callIds, responseIds, added) ==
  IF i > Len(messages) THEN <<>>
  ELSE LET m == messages[i]
       IN IF IsAssistantWithCalls(m)
            THEN CleanAssistant(m, responseIds)
                   \o SecondPass(messages, i + 1, callIds, responseIds, added)
          ELSE IF IsToolResponse(m)
            THEN IF m.tool_call_id \in callIds /\ m.tool_call_id \notin added
                   THEN <<m>> \o SecondPass(messages, i + 1, callIds, responseIds,
                                            added \cup {m.tool_call_id})
                   ELSE SecondPass(messages, i + 1, callIds, responseIds, added)
          ELSE <<m>> \o SecondPass(messages, i + 1, callIds, responseIds, added)

\* The "final validation" loop over `cleaned`.
FinalPass(cleaned) ==
  LET finalToolResponseIds ==
        {cleaned[i].tool_call_id :
           i \in {k \in DOMAIN cleaned : IsToolResponse(cleaned[k])}}
      one(m) == IF IsAssistantWithCalls(m)
                  THEN CleanAssistant(m, finalToolResponseIds)
                  ELSE <<m>>
  IN Flatten([i \in DOMAIN cleaned |-> one(cleaned[i])])

cleanOrphanedToolCalls(messages) ==
  FinalPass(SecondPass(messages, 1, CollectToolCallIds(messages),
                       CollectToolResponseIds(messages), {}))

\* Two adjacent assistant messages folded into the earlier one.
MergeInto(last, message) ==
  LET combinedContent == (IF last.content.str THEN last.content.s ELSE <<>>)
                           \o (IF message.content.str THEN message.content.s ELSE <<>>)
      lastToolCalls == IF last.has_tool_calls THEN last.tool_calls ELSE <<>>
      currentToolCalls == IF message.has_tool_calls THEN message.tool_calls ELSE <<>>
      combinedToolCalls == lastToolCalls \o currentToolCalls
      withContent == [last EXCEPT !.content = IF combinedContent # <<>>
                                                THEN Str(combinedContent)
                                                ELSE NullContent]
  IN IF Len(combinedToolCalls) > 0
       THEN [withContent EXCEPT !.has_tool_calls = TRUE,
                                !.tool_calls = combinedToolCalls]
       ELSE withContent

\* Mutant of MergeFrom: after a merge the following message is pushed
\* without being compared with the merged one.
RECURSIVE MergeFromSkipAfterMerge(_, _, _)
MergeFromSkipAfterMerge(messages, i, merged) ==
  IF i > Len(messages) THEN merged
  ELSE LET message == messages[i]
       IN IF /\ message.role = "assistant"
             /\ Len(merged) > 0
             /\ merged[Len(merged)].role = "assistant"
            THEN LET m2 == [merged EXCEPT ![Len(merged)] = MergeInto(@, message)]
                 IN IF i + 1 > Len(messages) THEN m2
                    ELSE MergeFromSkipAfterMerge(messages, i + 2,
                                                 Append(m2, messages[i + 1]))
            ELSE MergeFromSkipAfterMerge(messages, i + 1, Append(merged, message))

RECURSIVE MergeFrom(_, _, _)
MergeFrom(messages, i, merged) ==
  IF i > Len(messages) THEN merged
  ELSE LET message == messages[i]
       IN IF /\ message.role = "assistant"
             /\ Len(merged) > 0
             /\ merged[Len(merged)].role = "assistant"
            THEN MergeFrom(messages, i + 1,
                           [merged EXCEPT ![Len(merged)] = MergeInto(@, message)])
            ELSE MergeFrom(messages, i + 1, Append(merged, message))

mergeConsecutiveAssistantMessages(messages) == MergeFrom(messages, 1, <<>>)

(***************************************************************************)
(* The hygiene pass on its own: inputs are drawn from a bounded universe   *)
(* of provider-native messages.                                            *)
(***************************************************************************)
CallLists ==
  { <<>>, <<ToolCall("c1", "f")>>, <<ToolCall("c2", "f")>>, <<ToolCall("", "f")>>,
    <<ToolCall("c1", "f"), ToolCall("c2", "f")>>,
    <<ToolCall("c2", "f"), ToolCall("c1", "f")>>,
    <<ToolCall("c1", "f"), ToolCall("c1", "f")>> }

HygMessages ==
  {Msg("user", Str(<<"u">>), FALSE, <<>>, "")}
    \cup {Msg("assistant", c, FALSE, <<>>, "") :
            c \in {NullContent, Str(<<>>), Str(<<"a">>)}}
    \cup {Msg("assistant", c, TRUE, calls, "") :
            c \in {NullContent, Str(<<" ">>), Str(<<"a">>)}, calls \in CallLists}
    \cup {Msg("tool", Str(<<"r">>), FALSE, <<>>, id) : id \in {"", "c1", "c2"}}

HygIdle == hygPc = "idle" /\ hygIn = <<>> /\ hygOut = <<>> /\ hygTwice = <<>>

SendIdle ==
  /\ adapter = "none"
  /\ request = [contents |-> <<>>, single |-> FALSE]
  /\ sendPc = "idle"
  /\ sendOp = "none"
  /\ sent = <<>>
  /\ previous = <<>>
  /\ now = 0

HygInit ==
  /\ AuthIdle
  /\ FallbackIdle
  /\ SendIdle
  /\ StreamIdle
  /\ CallIdle
  /\ DecodeIdle
  /\ SchemaIdle
  /\ hygPc = "input"
  /\ hygIn \in SeqsUpTo(HygMessages, MaxMsgs)
  /\ hygOut = hygIn
  /\ hygTwice = <<>>

HygClean ==
  /\ hygPc = "input"
  /\ hygOut' = cleanOrphanedToolCalls(hygIn)
  /\ hygPc' = "cleaned"
  /\ UNCHANGED <<hygIn, hygTwice, hygOthers>>

HygMerge ==
  /\ hygPc = "cleaned"
  /\ hygOut' = mergeConsecutiveAssistantMessages(hygOut)
  /\ hygPc' = "merged"
  /\ UNCHANGED <<hygIn, hygTwice, hygOthers>>

\* The pass applied to its own output.
HygAgain ==
  /\ hygPc = "merged"
  /\ hygTwice' = mergeConsecutiveAssistantMessages(cleanOrphanedToolCalls(hygOut))
  /\ hygPc' = "twice"
  /\ UNCHANGED <<hygIn, hygOut, hygOthers>>

HygNext == HygClean \/ HygMerge \/ HygAgain

SpecHygiene == HygInit /\ [][HygNext]_vars

(***************************************************************************)
(* Claims about the hygiene pass.                                          *)
(***************************************************************************)
\* The ids of the tool calls left in assistant messages, in list order.
RemainingCallIds(messages) ==
  Flatten([i \in DOMAIN messages |->
             IF IsAssistantWithCalls(messages[i])
               THEN [j \in DOMAIN messages[i].tool_calls |->
                       messages[i].tool_calls[j].id]
               ELSE <<>>])

\* The tool_call_id of every tool-result message, in list order.
ResultIds(messages) ==
  Flatten([i \in DOMAIN messages |->
             IF messages[i].role = "tool" THEN <<messages[i].tool_call_id>>
             ELSE <<>>])

Count(s, x) == Cardinality({i \in DOMAIN s : s[i] = x})

\* C1 (as claimed): after cleanOrphanedToolCalls every remaining tool call
\* has exactly one tool-result message with its id, and every tool-result
\* message references the id of a remaining tool call.
C1_CallsAndResultsPaired ==
  hygPc = "cleaned" =>
    /\ \A c \in Range(RemainingCallIds(hygOut)) : Count(ResultIds(hygOut), c) = 1
    /\ \A r \in Range(ResultIds(hygOut)) : r \in Range(RemainingCallIds(hygOut))

\* C5: the pass (clean, then merge) applied to its own output returns that
\* output.
C5_HygieneIdempotent == hygPc = "twice" => hygTwice = hygOut

\* C5 witness: a run where the first pass removed and merged messages and
\* the second pass has been applied.
C5_Witness ==
  /\ hygPc = "twice"
  /\ Len(hygOut) < Len(hygIn)
  /\ \E i \in DOMAIN hygOut : hygOut[i].role = "assistant" /\ hygOut[i] \notin Range(hygIn)
  /\ \E i \in DOMAIN hygOut : hygOut[i].role = "tool"

(***************************************************************************)
(* Canonical requests and their conversion to each provider's messages.    *)
(* A part is a text (possibly flagged as thought), a functionCall or a     *)
(* functionResponse; id "" is a missing id.  The texts of the universe do  *)
(* not contain the reasoning-details marker, which                         *)
(* filterReasoningDetailsMarker then leaves unchanged.  System             *)
(* instructions and tool declarations are not part of the message list     *)
(* pairing and are left out.                                               *)
(***************************************************************************)
TextPart(s, thought) ==
  [kind |-> "text", text |-> s, thought |-> thought, id |-> "", name |-> ""]
CallPart(id, name) ==
  [kind |-> "functionCall", text |-> <<>>, thought |-> FALSE, id |-> id, name |-> name]
RespPart(id) ==
  [kind |-> "functionResponse", text |-> <<>>, thought |-> FALSE, id |-> id, name |-> "f"]

Turn(role, parts) == [role |-> role, parts |-> parts]

IsText(p) == p.kind = "text" /\ p.text # <<>>
IsCall(p) == p.kind = "functionCall"
IsResp(p) == p.kind = "functionResponse"

\* Array.prototype.join('\n')
RECURSIVE JoinLines(_)
JoinLines(ss) ==
  IF ss = <<>> THEN <<>>
  ELSE IF Len(ss) = 1 THEN ss[1]
  ELSE ss[1] \o <<"\n">> \o JoinLines(Tail(ss))

\* The serialized functionResponse.response of a tool message.
ResponseText == <<"r">>

\* parts.map(p => 'text' in p ? p.text : '').join('\n') of the single-turn
\* branches: thought texts included, other parts as ''.
AllTextJoined(parts) ==
  JoinLines([i \in DOMAIN parts |-> IF parts[i].kind = "text" THEN parts[i].text
                                     ELSE <<>>])

\* `call_${index}`
CallIndexId(index) == "call_" \o ToString(index)

\* The messages convertToOpenAIFormat pushes for one turn of an array.
OpenAITurnMessages(content) ==
  LET textParts == [i \in DOMAIN SelectSeq(content.parts,
                                            LAMBDA p : IsText(p) /\ ~p.thought) |->
                      SelectSeq(content.parts,
                                LAMBDA p : IsText(p) /\ ~p.thought)[i].text]
      functionCalls == SelectSeq(content.parts, LAMBDA p : ~IsText(p) /\ IsCall(p))
      functionResponses == SelectSeq(content.parts, LAMBDA p : ~IsText(p) /\ IsResp(p))
      text == JoinLines(textParts)
  IN IF Len(functionResponses) > 0
       THEN [i \in DOMAIN functionResponses |->
               Msg("tool", Str(ResponseText), FALSE, <<>>, functionResponses[i].id)]
     ELSE IF content.role = "model" /\ Len(functionCalls) > 0
       THEN <<Msg("assistant",
                  IF text # <<>> THEN Str(text) ELSE NullContent,
                  TRUE,
                  [i \in DOMAIN functionCalls |->
                     ToolCall(IF functionCalls[i].id # "" THEN functionCalls[i].id
                              ELSE CallIndexId(i - 1),
                              functionCalls[i].name)],
                  "")>>
     ELSE IF text # <<>>
       THEN <<Msg(IF content.role = "model" THEN "assistant" ELSE "user",
                  Str(text), FALSE, <<>>, "")>>
     ELSE <<>>

\* The messages array before the hygiene pass.
OpenAIRawMessages(req) ==
  IF ~req.single
    THEN Flatten([i \in DOMAIN req.contents |-> OpenAITurnMessages(req.contents[i])])
    ELSE LET content == req.contents[1]
             text == AllTextJoined(content.parts)
         IN IF text # <<>>
              THEN <<Msg(IF content.role = "model" THEN "assistant" ELSE "user",
                         Str(text), FALSE, <<>>, "")>>
              ELSE <<>>

convertToOpenAIFormat(req) ==
  mergeConsecutiveAssistantMessages(cleanOrphanedToolCalls(OpenAIRawMessages(req)))

(***************************************************************************)
(* Anthropic-style and gateway messages: a role and content blocks.  An id *)
(* the adapter makes up (`call_${Date.now()}`, `tool_${Date.now()}`) is    *)
(* the prefix followed by the reading of the clock at the conversion; no   *)
(* canonical id equals one.                                                *)
(***************************************************************************)
GeneratedId(prefix) == prefix \o ToString(now)

Block(type, text, id, name) == [type |-> type, text |-> text, id |-> id, name |-> name]

BlockMsg(role, blocks, isString) == [role |-> role, content |-> blocks, string |-> isString]

processContentParts(content) ==
  LET direct == SelectSeq(content.parts, LAMBDA p : IsText(p) \/ IsCall(p))
      functionResponses == SelectSeq(content.parts, LAMBDA p : ~IsText(p) /\ IsResp(p))
      contentBlocks ==
        [i \in DOMAIN direct |->
           IF IsText(direct[i]) THEN Block("text", direct[i].text, "", "")
           ELSE Block("tool_use",
                      <<>>,
                      IF direct[i].id # "" THEN direct[i].id
                      ELSE GeneratedId("call_"),
                      direct[i].name)]
          \o [i \in DOMAIN functionResponses |->
                Block("tool_result", ResponseText, functionResponses[i].id, "")]
  IN [role |-> IF content.role = "model" THEN "assistant" ELSE "user",
      contentBlocks |-> contentBlocks]

\* The content of a message as a block array (a string content becoming one
\* text block).
AsBlocks(m) == m.content

RECURSIVE AlternateFrom(_, _, _)
AlternateFrom(messages, i, result) ==
  IF i > Len(messages) THEN result
  ELSE LET msg == messages[i]
       IN IF Len(result) > 0 /\ result[Len(result)].role = msg.role
            THEN LET lastMsg == result[Len(result)]
                     mergedMsg ==
                       IF lastMsg.string /\ msg.string
                         THEN [lastMsg EXCEPT !.content =
                                 <<Block("text",
                                         lastMsg.content[1].text \o <<"\n">>
                                           \o msg.content[1].text, "", "")>>]
                         ELSE [lastMsg EXCEPT !.content = AsBlocks(lastMsg) \o AsBlocks(msg),
                                              !.string = FALSE]
                 IN AlternateFrom(messages, i + 1,
                                  [result EXCEPT ![Len(result)] = mergedMsg])
            ELSE AlternateFrom(messages, i + 1, Append(result, msg))

ContinueMessage == BlockMsg("user", <<Block("text", <<"C">>, "", "")>>, TRUE)

\* Sending the messages of the turns as they are, without coercion.
LeftAsGiven(messages) == messages

ensureAlternatingMessages(messages) ==
  IF Len(messages) = 0 THEN <<>>
  ELSE LET result == AlternateFrom(messages, 1, <<>>)
       IN IF Len(result) > 0 /\ result[1].role # "user"
            THEN <<ContinueMessage>> \o result
            ELSE result

\* Only an array of contents is converted; any other shape leaves the
\* message list empty.
convertToAnthropicFormat(req) ==
  IF ~req.single
    THEN ensureAlternatingMessages(
           Flatten([i \in DOMAIN req.contents |->
                      LET pc == processContentParts(req.contents[i])
                      IN IF Len(pc.contentBlocks) > 0
                           THEN <<BlockMsg(pc.role, pc.contentBlocks, FALSE)>>
                           ELSE <<>>]))
    ELSE <<>>

\* The gateway adapter that logs telemetry (class at
\* bedrockContentGenerator.ts:879).
BedrockTurnMessages(content) ==
  LET texts == SelectSeq(content.parts, LAMBDA p : IsText(p) /\ ~p.thought)
      contentBlocks == [i \in DOMAIN texts |-> Block("text", texts[i].text, "", "")]
      functionCalls == SelectSeq(content.parts, LAMBDA p : ~IsText(p) /\ IsCall(p))
      responses == SelectSeq(content.parts,
                             LAMBDA p : ~IsText(p) /\ ~IsCall(p) /\ IsResp(p))
  IN IF Len(responses) > 0
       THEN <<BlockMsg("user",
                       [i \in DOMAIN responses |->
                          Block("tool_result", ResponseText, responses[i].id, "")],
                       FALSE)>>
     ELSE IF content.role = "model" /\ Len(functionCalls) > 0
       THEN <<BlockMsg("assistant",
                       contentBlocks
                         \o [i \in DOMAIN functionCalls |->
                               Block("tool_use", <<>>,
                                     IF functionCalls[i].id # "" THEN functionCalls[i].id
                                     ELSE GeneratedId("tool_"),
                                     functionCalls[i].name)],
                       FALSE)>>
     ELSE IF Len(contentBlocks) > 0
       THEN <<BlockMsg(IF content.role = "model" THEN "assistant" ELSE "user",
                       contentBlocks, FALSE)>>
     ELSE <<>>

convertToBedrockFormat(req) ==
  IF ~req.single
    THEN Flatten([i \in DOMAIN req.contents |-> BedrockTurnMessages(req.contents[i])])
    ELSE LET content == req.contents[1]
             text == AllTextJoined(content.parts)
         IN IF text # <<>>
              THEN <<BlockMsg(IF content.role = "model" THEN "assistant" ELSE "user",
                              <<Block("text", text, "", "")>>, FALSE)>>
              ELSE <<>>

\* The message list an adapter builds at the start of generateContent and of
\* generateContentStream.
ConvertFor(a, req) ==
  CASE a = "openai" -> convertToOpenAIFormat(req)
    [] a = "anthropic" -> convertToAnthropicFormat(req)
    [] a = "bedrock" -> convertToBedrockFormat(req)

(***************************************************************************)
(* Sending a request: generate and generate-stream both convert the        *)
(* request and hand the list to the provider.                              *)
(***************************************************************************)
Adapters == {"openai", "anthropic", "bedrock"}

PartLists ==
  { <<>>,
    <<TextPart(<<"a">>, FALSE)>>,
    <<TextPart(<<"h">>, TRUE)>>,
    <<CallPart("c1", "f")>>,
    <<CallPart("", "f")>>,
    <<TextPart(<<"a">>, FALSE), CallPart("c1", "f")>>,
    <<CallPart("c1", "f"), CallPart("", "f")>>,
    <<RespPart("c1")>>,
    <<RespPart("")>>,
    <<RespPart("c1"), RespPart("c1")>>,
    <<TextPart(<<"a">>, FALSE), RespPart("c1")>>,
    <<CallPart("c1", "f"), RespPart("c1")>> }

Turns == {Turn(r, ps) : r \in {"user", "model"}, ps \in PartLists}

Requests ==
  {[contents |-> cs, single |-> FALSE] : cs \in SeqsUpTo(Turns, MaxTurns)}
    \cup {[contents |-> <<t>>, single |-> TRUE] : t \in Turns}

SendInit ==
  /\ AuthIdle
  /\ FallbackIdle
  /\ HygIdle
  /\ StreamIdle
  /\ CallIdle
  /\ DecodeIdle
  /\ SchemaIdle
  /\ adapter \in Adapters
  /\ request \in Requests
  /\ sendPc = "ready"
  /\ sendOp = "none"
  /\ sent = <<>>
  /\ previous = <<>>
  /\ now = 0

\* The caller, or the retry utility around it, calls the adapter with the
\* request; a second call carries the same request object.
GenerateContent ==
  /\ sendPc \in {"ready", "sent"}
  /\ sent' = ConvertFor(adapter, request)
  /\ previous' = sent
  /\ sendOp' = "generate"
  /\ sendPc' = IF sendPc = "ready" THEN "sent" ELSE "resent"
  /\ UNCHANGED <<adapter, request, now, sendOthers>>

GenerateContentStream ==
  /\ sendPc \in {"ready", "sent"}
  /\ sent' = ConvertFor(adapter, request)
  /\ previous' = sent
  /\ sendOp' = "generateStream"
  /\ sendPc' = IF sendPc = "ready" THEN "sent" ELSE "resent"
  /\ UNCHANGED <<adapter, request, now, sendOthers>>

\* A millisecond passes between two calls (the retry utility waits before
\* it calls again).
Tick ==
  /\ sendPc = "sent"
  /\ now < MaxTicks
  /\ now' = now + 1
  /\ UNCHANGED <<adapter, request, sendPc, sendOp, sent, previous, sendOthers>>

SendNext == GenerateContent \/ GenerateContentStream \/ Tick

SpecSend == SendInit /\ [][SendNext]_vars

\* The ids of the tool calls and of the tool results of a sent list, in
\* order, whatever the provider's message shape.
SentCallIds(a, messages) ==
  IF a = "openai" THEN RemainingCallIds(messages)
  ELSE Flatten([i \in DOMAIN messages |->
                  [j \in DOMAIN SelectSeq(messages[i].content,
                                          LAMBDA b : b.type = "tool_use") |->
                     SelectSeq(messages[i].content,
                               LAMBDA b : b.type = "tool_use")[j].id]])

SentResultIds(a, messages) ==
  IF a = "openai" THEN ResultIds(messages)
  ELSE Flatten([i \in DOMAIN messages |->
                  [j \in DOMAIN SelectSeq(messages[i].content,
                                          LAMBDA b : b.type = "tool_result") |->
                     SelectSeq(messages[i].content,
                               LAMBDA b : b.type = "tool_result")[j].id]])

\* C6 (as claimed): every list sent by any adapter has no tool call without
\* a matching result, no result without a matching call and no two results
\* for one call id.
C6_SentListIsClean ==
  sendPc \in {"sent", "resent"} =>
    LET calls == SentCallIds(adapter, sent)
        results == SentResultIds(adapter, sent)
    IN /\ \A c \in Range(calls) : c \in Range(results)
       /\ \A r \in Range(results) : r \in Range(calls)
       /\ \A r \in Range(results) : Count(results, r) = 1


(***************************************************************************)
(* Streaming.  Tool-call arguments are JSON text over the characters "{",  *)
(* "k" (one key/value pair) and "}": a document is "{", any number of      *)
(* pairs, "}", and its value is the object with that many keys.            *)
(***************************************************************************)
EmptyObject == [keys |-> 0]

IsDocument(s) ==
  /\ Len(s) >= 2
  /\ s[1] = "{"
  /\ s[Len(s)] = "}"
  /\ \A i \in 2..(Len(s) - 1) : s[i] = "k"

\* JSON.parse of a document.
JSONparse(s) == [keys |-> Len(s) - 2]

\* JSON.stringify of an object.
JSONstringify(v) == <<"{">> \o [i \in 1..v.keys |-> "k"] \o <<"}">>

\* jsonrepair closes an object that was cut off; it gives up on text that is
\* not the beginning of a document.
IsTruncated(s) ==
  /\ Len(s) >= 1
  /\ s[1] = "{"
  /\ \A i \in 2..Len(s) : s[i] = "k"

jsonrepair(s) == s \o <<"}">>

safeJsonParse(jsonString, fallbackValue) ==
  IF jsonString = <<>> THEN fallbackValue
  ELSE IF IsDocument(jsonString) THEN JSONparse(jsonString)
  ELSE IF IsTruncated(jsonString) THEN JSONparse(jsonrepair(jsonString))
  ELSE fallbackValue

\* The argument fragments the provider sends.
FragA == <<"{", "k">>
FragB == <<"}">>

\* The accumulator map.  An entry remembers the stream whose event created
\* it (owner) and its insertion number (serial): a Map iterates in
\* insertion order.
Entry(id, name, s, serial) ==
  [id |-> id, name |-> name, arguments |-> <<>>, owner |-> s,
   serial |-> serial]

Put(a, index, entry) ==
  [i \in (DOMAIN a) \cup {index} |-> IF i = index THEN entry ELSE a[i]]

Delete(a, indices) == [i \in (DOMAIN a) \ indices |-> a[i]]

RECURSIVE InsertionOrder(_, _)
InsertionOrder(a, S) ==
  IF S = {} THEN <<>>
  ELSE LET i == CHOOSE i \in S : \A j \in S : a[i].serial <= a[j].serial
       IN <<i>> \o InsertionOrder(a, S \ {i})

\* this.streamingToolCalls.clear() at the top of a generator body.
KeepAccumulators(a) == a

ResetAccumulators(a) == EmptyMap

\* accumulatedCall.arguments += fragment
ReplaceArguments(buffer, fragment) == fragment

AppendArguments(buffer, fragment) == buffer \o fragment

\* The parts of a streamed response.  The fields after args are history:
\* the text that was parsed, and the entry the part was built from.
DroppedText(text) ==
  [type |-> "text", text |-> <<>>, id |-> "", name |-> "",
   args |-> EmptyObject, raw |-> <<>>, owner |-> 0, serial |-> 0,
   index |-> 0]

StreamText(text) ==
  [type |-> "text", text |-> text, id |-> "", name |-> "",
   args |-> EmptyObject, raw |-> <<>>, owner |-> 0, serial |-> 0,
   index |-> 0]

FunctionCallPart(entry, index, args) ==
  [type |-> "functionCall", text |-> <<>>, id |-> entry.id,
   name |-> entry.name, args |-> args, raw |-> entry.arguments,
   owner |-> entry.owner, serial |-> entry.serial, index |-> index]

\* The call to the synthetic tool handed on as a tool call.
SurfacedSchemaCall(entry, index, args) ==
  [type |-> "functionCall", text |-> <<>>, id |-> entry.id,
   name |-> entry.name, args |-> args, raw |-> entry.arguments,
   owner |-> entry.owner, serial |-> entry.serial, index |-> index]

SchemaText(entry, index, args) ==
  [type |-> "text", text |-> JSONstringify(args), id |-> "",
   name |-> entry.name, args |-> args, raw |-> entry.arguments,
   owner |-> entry.owner, serial |-> entry.serial, index |-> index]

NoUsage ==
  [present |-> FALSE, promptTokenCount |-> 0, candidatesTokenCount |-> 0,
   totalTokenCount |-> 0]

Usage(prompt, candidates, total) ==
  [present |-> TRUE, promptTokenCount |-> prompt,
   candidatesTokenCount |-> candidates, totalTokenCount |-> total]

\* A response: candidates says whether it has a candidate at all; at is the
\* position, in the stream's events, of the event it was produced for.
Response(candidates, parts, finishReason, usage, at) ==
  [candidates |-> candidates, parts |-> parts, finishReason |-> finishReason,
   usage |-> usage, at |-> at]


(***************************************************************************)
(* The OpenAI-compatible adapter's chunk handler.                          *)
(***************************************************************************)
Delta(index, id, name, arguments) ==
  [index |-> index, id |-> id, name |-> name, arguments |-> arguments]

\* choice: the chunk has choices[0]; usage.present: it has a usage object.
Chunk(choice, content, tool_calls, finish_reason, usage) ==
  [choice |-> choice, content |-> content, tool_calls |-> tool_calls,
   finish_reason |-> finish_reason, usage |-> usage]

ProviderUsage(present, prompt, completion, total) ==
  [present |-> present, prompt_tokens |-> prompt,
   completion_tokens |-> completion, total_tokens |-> total]

NoProviderUsage == ProviderUsage(FALSE, 0, 0, 0)

\* The members of the canonical enum the adapters use.
FinishReason ==
  {"FINISH_REASON_UNSPECIFIED", "STOP", "MAX_TOKENS", "SAFETY"}

\* Names every object literal inherits from Object.prototype; the value
\* found under such a name is a function or the prototype object, and is
\* truthy.
ObjectPrototypeKeys ==
  {"constructor", "toString", "valueOf", "hasOwnProperty", "__proto__"}

Inherited(key) == "Object.prototype." \o key

\* mapping[openaiReason] || FINISH_REASON_UNSPECIFIED, mapping being an
\* object literal.
mapFinishReason(openaiReason) ==
  CASE openaiReason = "" -> "FINISH_REASON_UNSPECIFIED"
    [] openaiReason = "stop" -> "STOP"
    [] openaiReason = "length" -> "MAX_TOKENS"
    [] openaiReason = "content_filter" -> "SAFETY"
    [] openaiReason = "function_call" -> "STOP"
    [] openaiReason = "tool_calls" -> "STOP"
    [] openaiReason \in ObjectPrototypeKeys -> Inherited(openaiReason)
    [] OTHER -> "FINISH_REASON_UNSPECIFIED"

\* Rounding to the nearest integer, halves upwards, in exact arithmetic.
RoundTenths(n) == (n + 5) \div 10

\* The largest power of two that is at most n, for n >= 1.
RECURSIVE Binade(_)
Binade(n) == IF n < 2 THEN 1 ELSE 2 * Binade(n \div 2)

\* Math.round(totalTokens * 0.7).  The double nearest to 0.7 is below 0.7
\* by 0.4 * 2^-53, so a product that is x.5 in exact arithmetic comes out
\* below x.5, and is rounded down, when 0.4 * total is more than half the
\* spacing of the doubles around the product.
Round70(total) ==
  IF /\ (7 * total) % 10 = 5
     /\ 4 * total > 10 * Binade((7 * total) \div 10)
  THEN RoundTenths(7 * total) - 1
  ELSE RoundTenths(7 * total)

\* Math.round(totalTokens * 0.3).  The double nearest to 0.3 is below 0.3
\* by 0.1 * 2^-53, too little to take a product x.5 below x.5.
Round30(total) == RoundTenths(3 * total)

\* The provider's counts as they came.
ReportedUsage(usage) ==
  IF ~usage.present THEN NoUsage
  ELSE Usage(usage.prompt_tokens, usage.completion_tokens,
             usage.total_tokens)

OpenAIUsage(usage) ==
  IF ~usage.present THEN NoUsage
  ELSE IF /\ usage.total_tokens > 0
          /\ usage.prompt_tokens = 0
          /\ usage.completion_tokens = 0
       THEN Usage(Round70(usage.total_tokens), Round30(usage.total_tokens),
                  usage.total_tokens)
       ELSE Usage(usage.prompt_tokens, usage.completion_tokens,
                  usage.total_tokens)

\* The loop over choice.delta.tool_calls; serial is the insertion number
\* the next new entry gets.
RECURSIVE AccumulateToolCalls(_, _, _, _)
AccumulateToolCalls(a, toolCalls, s, serial) ==
  IF toolCalls = <<>> THEN [acc |-> a, serial |-> serial]
  ELSE LET toolCall == Head(toolCalls)
           index == toolCall.index
           fresh == index \notin DOMAIN a
           accumulatedCall ==
             IF fresh THEN Entry("", "", s, serial) ELSE a[index]
           updated ==
             [accumulatedCall EXCEPT
                !.id = IF toolCall.id # "" THEN toolCall.id ELSE @,
                !.name = IF toolCall.name # "" THEN toolCall.name ELSE @,
                !.arguments = IF toolCall.arguments # <<>>
                              THEN AppendArguments(@, toolCall.arguments)
                              ELSE @]
       IN AccumulateToolCalls(Put(a, index, updated), Tail(toolCalls), s,
                              IF fresh THEN serial + 1 ELSE serial)

\* What one accumulated call contributes when finish_reason arrives.
FinishPart(accumulatedCall, index, isJsonSchemaRequest) ==
  IF accumulatedCall.name = "" THEN <<>>
  ELSE LET args == IF accumulatedCall.arguments # <<>>
                   THEN safeJsonParse(accumulatedCall.arguments, EmptyObject)
                   ELSE EmptyObject
       IN IF isJsonSchemaRequest /\ accumulatedCall.name = "respond_in_schema"
          THEN <<SchemaText(accumulatedCall, index, args)>>
          ELSE <<FunctionCallPart(accumulatedCall, index, args)>>

RECURSIVE FinishParts(_, _, _)
FinishParts(a, order, isJsonSchemaRequest) ==
  IF order = <<>> THEN <<>>
  ELSE FinishPart(a[Head(order)], Head(order), isJsonSchemaRequest)
       \o FinishParts(a, Tail(order), isJsonSchemaRequest)

\* What a handler gives back: the accumulator and insertion number after
\* it, the responses it yields, the indices it deletes once resumed after
\* the yield, whether it threw, and the generator's token locals.
Handled(a, serial, yields, after, error, tok) ==
  [acc |-> a, serial |-> serial, yields |-> yields, after |-> after,
   error |-> error, tokens |-> tok]

convertStreamChunkToGeminiFormat(a, chunk, isJson, s, serial, at, tok) ==
  LET accumulated ==
        IF chunk.choice
        THEN AccumulateToolCalls(a, chunk.tool_calls, s, serial)
        ELSE [acc |-> a, serial |-> serial]
      finished == chunk.choice /\ chunk.finish_reason # ""
      textParts == IF chunk.choice /\ chunk.content # <<>>
                   THEN <<StreamText(chunk.content)>> ELSE <<>>
      callParts ==
        IF finished
        THEN FinishParts(accumulated.acc,
                         InsertionOrder(accumulated.acc,
                                        DOMAIN accumulated.acc),
                         isJson)
        ELSE <<>>
      response ==
        IF chunk.choice
        THEN Response(TRUE, textParts \o callParts,
                      mapFinishReason(chunk.finish_reason),
                      OpenAIUsage(chunk.usage), at)
        ELSE Response(FALSE, <<>>, "", OpenAIUsage(chunk.usage), at)
  IN Handled(IF finished THEN EmptyMap ELSE accumulated.acc,
             accumulated.serial, <<response>>, {}, FALSE, tok)

(***************************************************************************)
(* The gateway adapters' event handlers.  An event is one of               *)
(* contentBlockStart, contentBlockDelta, contentBlockStop, messageStop and *)
(* metadata; contentBlockIndex is always present.                          *)
(***************************************************************************)
BedrockEvent(type, index, toolUse, id, name, text, input, stop, usage) ==
  [type |-> type, index |-> index, toolUse |-> toolUse, id |-> id,
   name |-> name, text |-> text, input |-> input,
   stopReason |-> stop, usage |-> usage]

mapStopReason(stopReason) ==
  CASE stopReason = "" -> "FINISH_REASON_UNSPECIFIED"
    [] stopReason = "end_turn" -> "STOP"
    [] stopReason = "tool_use" -> "STOP"
    [] stopReason = "max_tokens" -> "MAX_TOKENS"
    [] stopReason = "stop_sequence" -> "STOP"
    [] stopReason = "content_filtered" -> "SAFETY"
    [] stopReason = "guardrail_intervened" -> "SAFETY"
    [] OTHER -> "FINISH_REASON_UNSPECIFIED"

\* this.streamingToolCalls.delete(index) after the yield of a tool call.
KeepAfterYield(a, indices) == a

DeleteAfterYield(a, indices) == Delete(a, indices)

\* The body of the loop of the class that holds streamingToolUses.
BedrockUsesHandle(a, event, s, serial, at, tok) ==
  LET index == event.index
      started == event.type = "contentBlockStart" /\ event.toolUse
      a1 == IF started
            THEN Put(a, index, Entry(event.id, event.name, s, serial))
            ELSE a
      isFragment == /\ event.type = "contentBlockDelta"
                    /\ event.toolUse
                    /\ index \in DOMAIN a1
                    /\ event.input # <<>>
      a2 == IF isFragment
            THEN Put(a1, index,
                     [a1[index] EXCEPT
                        !.arguments = AppendArguments(@, event.input)])
            ELSE a1
      textYield ==
        IF event.type = "contentBlockDelta" /\ event.text # <<>>
        THEN <<Response(TRUE, <<StreamText(event.text)>>, "STOP", NoUsage,
                        at)>>
        ELSE <<>>
      complete == /\ event.type = "contentBlockStop"
                  /\ index \in DOMAIN a2
                  /\ a2[index].id # ""
                  /\ a2[index].name # ""
      input == IF a2[index].arguments = <<>> THEN <<"{", "}">>
               ELSE a2[index].arguments
      parseFails == complete /\ ~IsDocument(input)
      callYield ==
        IF complete /\ ~parseFails
        THEN <<Response(TRUE,
                        <<FunctionCallPart(a2[index], index,
                                           JSONparse(input))>>,
                        "STOP", NoUsage, at)>>
        ELSE <<>>
      usageYield ==
        IF event.type = "metadata" /\ event.usage.present
        THEN <<Response(FALSE, <<>>, "",
                        Usage(event.usage.inputTokens,
                              event.usage.outputTokens,
                              event.usage.totalTokens), at)>>
        ELSE <<>>
  IN Handled(a2, IF started THEN serial + 1 ELSE serial,
             textYield \o callYield \o usageYield,
             IF complete /\ ~parseFails THEN {index} ELSE {},
             parseFails, tok)

createStreamResponse(parts, finishReason, usageMetadata, at) ==
  Response(TRUE, parts, finishReason, usageMetadata, at)

\* The body of the loop of the class that holds streamingToolCalls.
BedrockCallsHandle(a, event, s, serial, at, tok) ==
  LET index == event.index
      none == Handled(a, serial, <<>>, {}, FALSE, tok)
  IN CASE event.type = "contentBlockStart" ->
            IF event.toolUse
            THEN Handled(Put(a, index, Entry(event.id, event.name, s, serial)),
                         serial + 1, <<>>, {}, FALSE, tok)
            ELSE none
       [] event.type = "contentBlockDelta" ->
            IF event.text # <<>>
            THEN Handled(a, serial,
                         <<createStreamResponse(<<StreamText(event.text)>>,
                              "FINISH_REASON_UNSPECIFIED", NoUsage, at)>>,
                         {}, FALSE, tok)
            ELSE IF event.toolUse /\ index \in DOMAIN a
            THEN Handled(Put(a, index,
                             [a[index] EXCEPT
                                !.arguments = AppendArguments(@, event.input)]),
                         serial, <<>>, {}, FALSE, tok)
            ELSE none
       [] event.type = "contentBlockStop" ->
            IF index \in DOMAIN a /\ a[index].name # ""
            THEN Handled(a, serial,
                         <<createStreamResponse(
                              <<FunctionCallPart(a[index], index,
                                   safeJsonParse(a[index].arguments,
                                                 EmptyObject))>>,
                              "STOP", NoUsage, at)>>,
                         {index}, FALSE, tok)
            ELSE none
       [] event.type = "messageStop" ->
            Handled(a, serial,
                    <<createStreamResponse(<<>>,
                         mapStopReason(event.stopReason),
                         Usage(tok.inputTokens, tok.outputTokens,
                               tok.inputTokens + tok.outputTokens), at)>>,
                    {}, FALSE, tok)
       [] event.type = "metadata" ->
            Handled(a, serial, <<>>, {}, FALSE,
                    [inputTokens |-> event.usage.inputTokens,
                     outputTokens |-> event.usage.outputTokens])


(***************************************************************************)
(* The provider events of the model, and what a provider that keeps to     *)
(* its protocol may send next on a stream.                                 *)
(***************************************************************************)
Kinds == {"openai", "bedrockUses", "bedrockCalls"}

OpenAIChunks ==
  { Chunk(TRUE, <<"x">>, <<>>, "", NoProviderUsage),
    Chunk(TRUE, <<"y">>, <<>>, "", NoProviderUsage),
    Chunk(TRUE, <<>>, <<Delta(0, "c1", "f", FragA)>>, "", NoProviderUsage),
    Chunk(TRUE, <<>>, <<Delta(1, "", "respond_in_schema", <<>>)>>, "",
          NoProviderUsage),
    Chunk(TRUE, <<>>, <<Delta(0, "", "", FragB)>>, "", NoProviderUsage),
    Chunk(TRUE, <<>>, <<Delta(1, "", "", FragA)>>, "", NoProviderUsage),
    Chunk(TRUE, <<>>, <<>>, "stop", NoProviderUsage),
    Chunk(FALSE, <<>>, <<>>, "", ProviderUsage(TRUE, 0, 0, 10)) }

BedrockUsage(present, inputTokens, outputTokens, totalTokens) ==
  [present |-> present, inputTokens |-> inputTokens,
   outputTokens |-> outputTokens, totalTokens |-> totalTokens]

NoBedrockUsage == BedrockUsage(FALSE, 0, 0, 0)

BedrockEvents ==
  { BedrockEvent("contentBlockDelta", 0, FALSE, "", "", <<"x">>, <<>>, "",
                 NoBedrockUsage),
    BedrockEvent("contentBlockDelta", 0, FALSE, "", "", <<"y">>, <<>>, "",
                 NoBedrockUsage),
    BedrockEvent("contentBlockStart", 0, TRUE, "c1", "f", <<>>, <<>>, "",
                 NoBedrockUsage),
    BedrockEvent("contentBlockStart", 1, TRUE, "", "f", <<>>, <<>>, "",
                 NoBedrockUsage),
    BedrockEvent("contentBlockDelta", 0, TRUE, "", "", <<>>, FragA, "",
                 NoBedrockUsage),
    BedrockEvent("contentBlockDelta", 0, TRUE, "", "", <<>>, FragB, "",
                 NoBedrockUsage),
    BedrockEvent("contentBlockDelta", 1, TRUE, "", "", <<>>, FragA, "",
                 NoBedrockUsage),
    BedrockEvent("contentBlockStop", 0, FALSE, "", "", <<>>, <<>>, "",
                 NoBedrockUsage),
    BedrockEvent("contentBlockStop", 1, FALSE, "", "", <<>>, <<>>, "",
                 NoBedrockUsage),
    BedrockEvent("messageStop", 0, FALSE, "", "", <<>>, <<>>, "end_turn",
                 NoBedrockUsage),
    BedrockEvent("metadata", 0, FALSE, "", "", <<>>, <<>>, "",
                 BedrockUsage(TRUE, 5, 2, 7)) }

EventsOf(k) == IF k = "openai" THEN OpenAIChunks ELSE BedrockEvents

\* The text delta of an event, <<>> if it has none.
TextOf(k, e) ==
  IF k = "openai" THEN (IF e.choice THEN e.content ELSE <<>>)
  ELSE IF e.type = "contentBlockDelta" THEN e.text ELSE <<>>

\* The argument fragments of an event for one index, in order.
RECURSIVE DeltaFragments(_, _)
DeltaFragments(toolCalls, index) ==
  IF toolCalls = <<>> THEN <<>>
  ELSE (IF Head(toolCalls).index = index THEN Head(toolCalls).arguments
        ELSE <<>>) \o DeltaFragments(Tail(toolCalls), index)

FragmentsOf(k, e, index) ==
  IF k = "openai"
  THEN (IF e.choice THEN DeltaFragments(e.tool_calls, index) ELSE <<>>)
  ELSE IF e.type = "contentBlockDelta" /\ e.toolUse /\ e.index = index
       THEN e.input ELSE <<>>

\* The provider signals that the call at index is complete.
IsBoundary(k, e, index) ==
  IF k = "openai" THEN e.choice /\ e.finish_reason # ""
  ELSE e.type = "contentBlockStop" /\ e.index = index

\* All fragments for index among the first n events of a history.
RECURSIVE Received(_, _, _, _)
Received(k, history, index, n) ==
  IF n = 0 THEN <<>>
  ELSE Received(k, history, index, n - 1) \o FragmentsOf(k, history[n], index)

\* OpenAI: after the chunk with finish_reason only a repeated finish chunk
\* or the usage chunk follows.  Bedrock: a block is started once, tool input
\* arrives only for a started block that has not stopped, and only metadata
\* follows messageStop.
Conforms(k, history, e) ==
  LET seen(P(_)) == \E n \in 1..Len(history) : P(history[n])
  IN IF k = "openai"
     THEN LET fin(h) == h.choice /\ h.finish_reason # ""
          IN seen(fin) => (e.content = <<>> /\ e.tool_calls = <<>>)
     ELSE LET stopped(h) == h.type = "messageStop"
              begun(h) == h.type = "contentBlockStart" /\ h.index = e.index
              closed(h) == h.type = "contentBlockStop" /\ h.index = e.index
          IN /\ seen(stopped) => e.type = "metadata"
             /\ e.type = "contentBlockStart" => ~seen(begun)
             /\ (e.type = "contentBlockDelta" /\ e.toolUse)
                  => (seen(begun) /\ ~seen(closed))

Handle(k, a, e, isJsonSchemaRequest, s, serial, at, tok) ==
  CASE k = "openai" ->
         convertStreamChunkToGeminiFormat(a, e, isJsonSchemaRequest, s,
                                          serial, at, tok)
    [] k = "bedrockUses" -> BedrockUsesHandle(a, e, s, serial, at, tok)
    [] k = "bedrockCalls" -> BedrockCallsHandle(a, e, s, serial, at, tok)

\* The finally block of the class that holds streamingToolUses; the other
\* two generators have none.
Finally(k, a) == IF k = "bedrockUses" THEN EmptyMap ELSE a

(***************************************************************************)
(* The stream generators.  A generator body starts at the consumer's       *)
(* first pull, then alternates between awaiting the provider's next event  *)
(* and being suspended at a yield.                                         *)
(***************************************************************************)
Active(s) == genPc[s] \in {"awaiting", "yielded"}
TotalEvents == Len(events[1]) + Len(events[2])

StreamInit ==
  /\ AuthIdle
  /\ FallbackIdle
  /\ HygIdle
  /\ SendIdle
  /\ CallIdle
  /\ DecodeIdle
  /\ SchemaIdle
  /\ kind \in Kinds
  /\ acc = EmptyMap
  /\ genPc = [s \in Streams |-> "created"]
  /\ jsonReq \in [Streams -> BOOLEAN]
  /\ kind # "openai" => jsonReq = [s \in Streams |-> FALSE]
  /\ pending = [s \in Streams |-> {}]
  /\ tokens = [s \in Streams |-> NoTokens]
  /\ events = [s \in Streams |-> <<>>]
  /\ out = [s \in Streams |-> <<>>]
  /\ nextSerial = 1
  /\ leftover = [s \in Streams |-> FALSE]
  /\ overlapped = [s \in Streams |-> FALSE]

\* The consumer's first pull: the body runs up to its first await.  Streams
\* are numbered in the order they start.
StartStream(s) ==
  /\ genPc[s] = "created"
  /\ \A t \in Streams : t < s => genPc[t] # "created"
  /\ genPc' = [genPc EXCEPT ![s] = "awaiting"]
  /\ acc' = ResetAccumulators(acc)
  /\ leftover' = [leftover EXCEPT ![s] = acc # EmptyMap]
  /\ overlapped' = [t \in Streams |->
                      IF \E u \in Streams \ {s} : Active(u)
                      THEN overlapped[t] \/ t = s \/ Active(t)
                      ELSE overlapped[t]]
  /\ UNCHANGED <<kind, jsonReq, pending, tokens, events, out, nextSerial>>
  /\ UNCHANGED streamOthers

\* Callers that serialize their streams start one only when no other is
\* being consumed.
StartSerialized(s) ==
  /\ \A t \in Streams \ {s} : ~Active(t)
  /\ StartStream(s)

\* The provider delivers an event and the body handles it, up to its next
\* yield or await, or up to the throw that ends it.
OnEvent(s) ==
  /\ genPc[s] = "awaiting"
  /\ TotalEvents < MaxEvents
  /\ \E e \in EventsOf(kind) :
       /\ Conforms(kind, events[s], e)
       /\ LET at == Len(events[s]) + 1
              h == Handle(kind, acc, e, jsonReq[s], s, nextSerial, at,
                          tokens[s])
          IN /\ events' = [events EXCEPT ![s] = Append(@, e)]
             /\ nextSerial' = h.serial
             /\ tokens' = [tokens EXCEPT ![s] = h.tokens]
             /\ IF h.error
                THEN /\ genPc' = [genPc EXCEPT ![s] = "failed"]
                     /\ acc' = Finally(kind, h.acc)
                     /\ UNCHANGED <<out, pending>>
                ELSE /\ acc' = h.acc
                     /\ out' = [out EXCEPT ![s] = @ \o h.yields]
                     /\ pending' = [pending EXCEPT ![s] = h.after]
                     /\ genPc' = [genPc EXCEPT ![s] =
                                    IF h.yields = <<>> THEN "awaiting"
                                    ELSE "yielded"]
  /\ UNCHANGED <<kind, jsonReq, leftover, overlapped>>
  /\ UNCHANGED streamOthers

\* The consumer pulls again: the body runs on from the yield to the await.
Resume(s) ==
  /\ genPc[s] = "yielded"
  /\ genPc' = [genPc EXCEPT ![s] = "awaiting"]
  /\ acc' = DeleteAfterYield(acc, pending[s])
  /\ pending' = [pending EXCEPT ![s] = {}]
  /\ UNCHANGED <<kind, jsonReq, tokens, events, out, nextSerial, leftover,
                 overlapped>>
  /\ UNCHANGED streamOthers

\* The provider's stream is exhausted.
EndStream(s) ==
  /\ genPc[s] = "awaiting"
  /\ genPc' = [genPc EXCEPT ![s] = "done"]
  /\ acc' = Finally(kind, acc)
  /\ UNCHANGED <<kind, jsonReq, pending, tokens, events, out, nextSerial,
                 leftover, overlapped>>
  /\ UNCHANGED streamOthers

\* The provider's stream raises an error while the body awaits it.
FailStream(s) ==
  /\ genPc[s] = "awaiting"
  /\ genPc' = [genPc EXCEPT ![s] = "failed"]
  /\ acc' = Finally(kind, acc)
  /\ UNCHANGED <<kind, jsonReq, pending, tokens, events, out, nextSerial,
                 leftover, overlapped>>
  /\ UNCHANGED streamOthers

\* The consumer abandons the iteration (return()) at a yield: the code
\* after the yield never runs, a finally block does.
CancelStream(s) ==
  /\ genPc[s] = "yielded"
  /\ genPc' = [genPc EXCEPT ![s] = "cancelled"]
  /\ acc' = Finally(kind, acc)
  /\ pending' = [pending EXCEPT ![s] = {}]
  /\ UNCHANGED <<kind, jsonReq, tokens, events, out, nextSerial, leftover,
                 overlapped>>
  /\ UNCHANGED streamOthers

SerialNext ==
  \E s \in Streams :
    \/ StartSerialized(s)
    \/ OnEvent(s)
    \/ Resume(s)
    \/ EndStream(s)
    \/ FailStream(s)
    \/ CancelStream(s)

\* The interleaved runs are explored up to their own number of events.
OnEventOverlapped(s) ==
  /\ TotalEvents < MaxOverlapEvents
  /\ OnEvent(s)

OverlapNext ==
  \E s \in Streams :
    \/ StartStream(s)
    \/ OnEventOverlapped(s)
    \/ Resume(s)
    \/ EndStream(s)
    \/ FailStream(s)
    \/ CancelStream(s)

\* Streams on one adapter instance, each fully consumed before the next.
SpecSerial == StreamInit /\ [][SerialNext]_vars

\* Streams on one adapter instance consumed in any interleaving.
SpecOverlap == StreamInit /\ [][OverlapNext]_vars


(***************************************************************************)
(* Claims about streaming.                                                 *)
(***************************************************************************)
Indexes == {0, 1}

\* The positions <<response, part>> of the parts a stream has emitted, and
\* those among them that were built from an accumulated call.
Positions(s) ==
  UNION { { <<n, j>> : j \in 1..Len(out[s][n].parts) } : n \in 1..Len(out[s]) }

PartAt(s, pos) == out[s][pos[1]].parts[pos[2]]
EventAt(s, pos) == events[s][out[s][pos[1]].at]
Built(s) == { pos \in Positions(s) : PartAt(s, pos).serial # 0 }

\* The event opens a call at index that has both an id and a name.
IsHead(k, e, index) ==
  IF k = "openai"
  THEN /\ e.choice
       /\ \E d \in 1..Len(e.tool_calls) :
            /\ e.tool_calls[d].index = index
            /\ e.tool_calls[d].id # ""
            /\ e.tool_calls[d].name # ""
  ELSE /\ e.type = "contentBlockStart"
       /\ e.toolUse
       /\ e.index = index
       /\ e.id # ""
       /\ e.name # ""

\* The class that holds streamingToolUses throws on arguments that are not
\* a JSON document.
Rejects(k, text) ==
  k = "bedrockUses" /\ text # <<>> /\ ~IsDocument(text)

\* C2: a streamed tool call reaches the caller only in the response to the
\* provider's completion boundary (the chunk with finish_reason, the
\* contentBlockStop of its index), the responses to all other events carry
\* nothing but that event's text, no accumulated call is emitted twice, and
\* a call with id and name whose boundary has arrived has been emitted in
\* the response to that boundary.
C2_EmittedOnceAtBoundary ==
  \A s \in Streams :
    /\ \A pos \in Built(s) :
         IsBoundary(kind, EventAt(s, pos), PartAt(s, pos).index)
    /\ \A pos \in Positions(s) \ Built(s) :
         /\ PartAt(s, pos).type = "text"
         /\ PartAt(s, pos).text = TextOf(kind, EventAt(s, pos))
    /\ \A pos \in Built(s) : \A t \in Streams : \A other \in Built(t) :
         PartAt(t, other).serial = PartAt(s, pos).serial
           => (t = s /\ other = pos)
    /\ \A n \in 1..Len(events[s]) : \A m \in 1..n : \A i \in Indexes :
         ( /\ IsHead(kind, events[s][m], i)
           /\ IsBoundary(kind, events[s][n], i)
           /\ \A b \in m..(n - 1) : ~IsBoundary(kind, events[s][b], i)
           /\ ~Rejects(kind, Received(kind, events[s], i, n)) )
         => \E pos \in Built(s) :
              /\ out[s][pos[1]].at = n
              /\ PartAt(s, pos).index = i
              /\ PartAt(s, pos).id # ""

\* C2 witness: a call was emitted at its boundary and a later boundary of
\* the same stream emitted nothing.
C2_Witness ==
  \E s \in Streams : \E pos \in Built(s) :
    \E n \in 1..Len(events[s]) :
      /\ n > out[s][pos[1]].at
      /\ IsBoundary(kind, events[s][n], PartAt(s, pos).index)
      /\ \A other \in Built(s) : out[s][other[1]].at # n


\* C3: a stream whose generator body started while the accumulator still
\* held entries of an earlier stream finds the accumulator empty when it
\* awaits its first event, and every tool call it emits was built from an
\* entry its own events created, out of its own fragments.
C3_FreshAccumulatorAtStart ==
  \A s \in Streams :
    leftover[s] =>
      /\ (genPc[s] = "awaiting" /\ events[s] = <<>>) => acc = EmptyMap
      /\ \A pos \in Built(s) :
           /\ PartAt(s, pos).owner = s
           /\ PartAt(s, pos).raw =
                Received(kind, events[s], PartAt(s, pos).index,
                         out[s][pos[1]].at)

\* C3 witness: a stream that started over leftover entries has emitted a
\* tool call.
C3_Witness ==
  \E s \in Streams : leftover[s] /\ Built(s) # {}


\* C4: once a stream has ended, on whichever exit path (the provider's
\* stream exhausted, the provider's stream failing, the consumer
\* cancelling), and no stream is being consumed, the accumulator map is
\* empty.
C4_AccumulatorEmptyAfterExit ==
  ( /\ \E s \in Streams : genPc[s] \in {"done", "failed", "cancelled"}
    /\ \A s \in Streams : ~Active(s) )
  => acc = EmptyMap


\* C7: the text parsed for an emitted tool call is the concatenation, in
\* arrival order, of the fragments its stream received for its index up to
\* the boundary, a JSON document among them is parsed to its value, and
\* every buffer in the accumulator holds exactly the fragments that its
\* stream received for its own index.
C7_ArgumentsAreConcatenation ==
  /\ \A s \in Streams : \A pos \in Built(s) :
       LET part == PartAt(s, pos)
           all == Received(kind, events[s], part.index, out[s][pos[1]].at)
       IN /\ part.raw = all
          /\ IsDocument(all) => part.args = JSONparse(all)
  /\ \A i \in DOMAIN acc :
       acc[i].arguments =
         Received(kind, events[acc[i].owner], i, Len(events[acc[i].owner]))

\* C7 witness: a tool call assembled from two fragments was emitted by a
\* stream that had also received a fragment for the other index.
C7_Witness ==
  \E s \in Streams : \E pos \in Built(s) :
    /\ PartAt(s, pos).raw = FragA \o FragB
    /\ PartAt(s, pos).args = [keys |-> 1]
    /\ Received(kind, events[s], 1 - PartAt(s, pos).index, Len(events[s]))
         # <<>>


\* The parts a stream has emitted, in order, and the text deltas it has
\* received, in order.
AllParts(s) == Flatten([n \in 1..Len(out[s]) |-> out[s][n].parts])
IsTextPart(p) == p.type = "text"
IsDeltaText(p) == p.type = "text" /\ p.serial = 0
Texts(parts) == [n \in 1..Len(parts) |-> parts[n].text]
NonEmpty(t) == t # <<>>

TextDeltas(s) ==
  SelectSeq([n \in 1..Len(events[s]) |-> TextOf(kind, events[s][n])],
            NonEmpty)

\* C8 as stated: every text delta is emitted in the response to its own
\* event, and the text parts a caller observes are exactly the text deltas,
\* in arrival order.
C8_TextPartsEqualDeltas ==
  \A s \in Streams :
    /\ \A n \in 1..Len(events[s]) :
         TextOf(kind, events[s][n]) # <<>> =>
           \E r \in 1..Len(out[s]) :
             /\ out[s][r].at = n
             /\ out[s][r].parts # <<>>
             /\ out[s][r].parts[1].text = TextOf(kind, events[s][n])
    /\ Texts(SelectSeq(AllParts(s), IsTextPart)) = TextDeltas(s)

\* C8 amended: every text delta is emitted in the response to its own
\* event; the text parts other than unwrapped schema answers are exactly
\* the text deltas, in arrival order; and any further text part is the
\* serialized arguments of a respond_in_schema call of a JSON-schema
\* request, emitted at the chunk with finish_reason.
C8_TextDeltasInOrder ==
  \A s \in Streams :
    /\ \A n \in 1..Len(events[s]) :
         TextOf(kind, events[s][n]) # <<>> =>
           \E r \in 1..Len(out[s]) :
             /\ out[s][r].at = n
             /\ out[s][r].parts # <<>>
             /\ out[s][r].parts[1] = StreamText(TextOf(kind, events[s][n]))
    /\ Texts(SelectSeq(AllParts(s), IsDeltaText)) = TextDeltas(s)
    /\ \A pos \in Built(s) :
         PartAt(s, pos).type = "text" =>
           /\ kind = "openai"
           /\ jsonReq[s]
           /\ PartAt(s, pos).name = "respond_in_schema"
           /\ EventAt(s, pos).finish_reason # ""
           /\ PartAt(s, pos).text = JSONstringify(PartAt(s, pos).args)

\* C8 witness: a stream has emitted two text deltas in order, with a tool
\* argument fragment received between them.
C8_Witness ==
  \E s \in Streams :
    /\ Len(TextDeltas(s)) = 2
    /\ Texts(SelectSeq(AllParts(s), IsDeltaText)) = TextDeltas(s)
    /\ \E n \in 2..(Len(events[s]) - 1) : \E i \in Indexes :
         /\ FragmentsOf(kind, events[s][n], i) # <<>>
         /\ TextOf(kind, events[s][n - 1]) # <<>>
         /\ TextOf(kind, events[s][n + 1]) # <<>>


\* The event gives the call at index its name.
NamesCall(k, e, index, name) ==
  IF k = "openai"
  THEN /\ e.choice
       /\ \E d \in 1..Len(e.tool_calls) :
            /\ e.tool_calls[d].index = index
            /\ e.tool_calls[d].name = name
  ELSE /\ e.type = "contentBlockStart"
       /\ e.toolUse
       /\ e.index = index
       /\ e.name = name

\* C9: a stream that was consumed while no other stream of the instance
\* was active emits only tool calls whose entry was created and named by
\* its own events and whose arguments are its own fragments, whatever the
\* streams before and after it did.
C9_SerializedStreamsIndependent ==
  \A s \in Streams :
    ~overlapped[s] =>
      \A pos \in Built(s) :
        LET part == PartAt(s, pos)
            at == out[s][pos[1]].at
        IN /\ part.owner = s
           /\ part.raw = Received(kind, events[s], part.index, at)
           /\ \E m \in 1..at :
                NamesCall(kind, events[s][m], part.index, part.name)

\* C9 witness: of two interleaved streams, one had opened a tool call, the
\* other's start erased it, and the first then emitted, at its boundary, a
\* call that the other stream's events had created.
C9_Witness ==
  \E s \in Streams :
    /\ overlapped[s]
    /\ \E pos \in Built(s) :
         /\ PartAt(s, pos).owner # s
         /\ \E m \in 1..out[s][pos[1]].at :
              IsHead(kind, events[s][m], PartAt(s, pos).index)


(***************************************************************************)
(* The calls generate and generateStream, their failures and telemetry.    *)
(***************************************************************************)
CallAdapters == {"openai", "anthropic", "bedrockUses", "bedrockCalls"}
Operations == {"generate", "generateStream"}

\* maxAttempts handed to the retry utility by the class that holds
\* streamingToolUses.
maxAttempts == 3

\* The text of the provider's error messages, as characters.
MessageText(message) ==
  CASE message = "boom" ->
         <<"b", "o", "o", "m">>
    [] message = "time out" ->
         <<"t", "i", "m", "e", " ", "o", "u", "t">>
    [] message = "Request Timed Out" ->
         <<"R", "e", "q", "u", "e", "s", "t", " ", "T", "i", "m", "e", "d",
           " ", "O", "u", "t">>
    [] message = "read ETIMEDOUT" ->
         <<"r", "e", "a", "d", " ", "E", "T", "I", "M", "E", "D", "O", "U",
           "T">>
    [] OTHER -> <<>>

Lower(c) ==
  CASE c = "D" -> "d" [] c = "E" -> "e" [] c = "I" -> "i" [] c = "M" -> "m"
    [] c = "O" -> "o" [] c = "R" -> "r" [] c = "T" -> "t" [] c = "U" -> "u"
    [] c = "B" -> "b" [] c = "C" -> "c" [] c = "G" -> "g" [] c = "J" -> "j"
    [] c = "L" -> "l" [] c = "N" -> "n" [] c = "S" -> "s"
    [] OTHER -> c

toLowerCase(s) == [i \in 1..Len(s) |-> Lower(s[i])]

includes(s, pattern) ==
  \E i \in 1..(Len(s) - Len(pattern) + 1) :
    SubSeq(s, i, i + Len(pattern) - 1) = pattern

TimeoutIndicators ==
  {
    <<"t", "i", "m", "e", "o", "u", "t">>,
    <<"t", "i", "m", "e", "d", " ", "o", "u", "t">>,
    <<"c", "o", "n", "n", "e", "c", "t", "i", "o", "n", " ", "t", "i", "m",
      "e", "o", "u", "t">>,
    <<"r", "e", "q", "u", "e", "s", "t", " ", "t", "i", "m", "e", "o", "u",
      "t">>,
    <<"r", "e", "a", "d", " ", "t", "i", "m", "e", "o", "u", "t">>,
    <<"e", "t", "i", "m", "e", "d", "o", "u", "t">>,
    <<"e", "s", "o", "c", "k", "e", "t", "t", "i", "m", "e", "d", "o", "u",
      "t">>,
    <<"r", "e", "q", "u", "e", "s", "t", " ", "t", "i", "m", "e", "d", " ",
      "o", "u", "t">>,
    <<"d", "e", "a", "d", "l", "i", "n", "e", " ", "e", "x", "c", "e", "e",
      "d", "e", "d">> }

isTimeoutError(error) ==
  /\ error # NoError
  /\ LET errorMessage == toLowerCase(MessageText(error.message))
     IN \/ \E pattern \in TimeoutIndicators : includes(errorMessage, pattern)
        \/ error.code = "ETIMEDOUT"
        \/ error.code = "ESOCKETTIMEDOUT"
        \/ error.type = "timeout"

\* The errors a provider call raises.
ProviderErrors ==
  { ErrorObject("provider", name, message, code, type) :
      name \in {"Error", "ThrottlingException", "AccessDeniedException"},
      message \in {"boom", "time out", "Request Timed Out", "read ETIMEDOUT"},
      code \in {"", "ETIMEDOUT", "ECONNRESET"},
      type \in {"", "timeout"} }

\* The message of the error the OpenAI-compatible adapter logs.
TimeoutMessage(ph) ==
  CASE ph = "request" -> "Request timeout after Ns."
    [] ph = "iterate" -> "Streaming request timeout after Ns."
    [] ph = "setup" -> "Streaming setup timeout after Ns."

OpenAIErrorMessage(error, ph) ==
  IF isTimeoutError(error) THEN TimeoutMessage(ph) ELSE error.message

NewError(message) == ErrorObject("adapter", "Error", message, "", "")

\* What the catch blocks of the OpenAI-compatible adapter throw.
AlwaysWrapped(error, ph) ==
  NewError(TimeoutMessage(ph) \o " Troubleshooting tips")

OpenAIThrown(error, ph) ==
  IF isTimeoutError(error)
  THEN NewError(OpenAIErrorMessage(error, ph) \o " Troubleshooting tips")
  ELSE error

enhanceError(error) ==
  CASE error.name = "AccessDeniedException" ->
         NewError("Insufficient IAM permissions for Bedrock.")
    [] error.name = "ThrottlingException" ->
         NewError("AWS Bedrock rate limit exceeded.")
    [] OTHER -> error

\* The adapters that log API events.
LogsTelemetry(a) == a \in {"openai", "bedrockCalls"}

ApiEvent(type, message) == [type |-> type, message |-> message]

Logged(a, log, event) == IF LogsTelemetry(a) THEN Append(log, event) ELSE log


CallInit ==
  /\ AuthIdle
  /\ FallbackIdle
  /\ HygIdle
  /\ SendIdle
  /\ StreamIdle
  /\ DecodeIdle
  /\ SchemaIdle
  /\ callAdapter \in CallAdapters
  /\ callOp \in Operations
  /\ callPc = "ready"
  /\ phase = "none"
  /\ attempts = 0
  /\ raised = NoError
  /\ thrown = NoError
  /\ observed = NoError
  /\ telemetry = <<>>
  /\ yielded = 0

\* Every call sends the provider request before it returns ...
AlwaysSendsAtCall(a, op) == TRUE

\* ... except the Anthropic-style generateStream, which wraps the blocking
\* generate in a generator function and returns the generator unstarted.
SendsAtCall(a, op) == ~(a = "anthropic" /\ op = "generateStream")

\* The Anthropic-style generateStream returns its generator without a
\* provider request; every other call sends the request.
Invoke ==
  /\ callPc = "ready"
  /\ IF SendsAtCall(callAdapter, callOp)
     THEN callPc' = "called" /\ attempts' = 1
     ELSE callPc' = "generator" /\ attempts' = 0
  /\ UNCHANGED <<callAdapter, callOp, phase, raised, thrown, observed,
                 telemetry, yielded>>
  /\ UNCHANGED callOthers

\* The provider request succeeds: generate logs the response and returns,
\* generateStream returns the wrapped generator.
ProviderResponds ==
  /\ callPc = "called"
  /\ IF callOp = "generate"
     THEN /\ callPc' = "returned"
          /\ telemetry' = Logged(callAdapter, telemetry,
                                 ApiEvent("response", ""))
     ELSE /\ callPc' = "generator"
          /\ UNCHANGED telemetry
  /\ UNCHANGED <<callAdapter, callOp, phase, attempts, raised, thrown,
                 observed, yielded>>
  /\ UNCHANGED callOthers

\* The provider call raises: the request, the stream setup, or the
\* iteration of the provider's stream (for the Anthropic-style generator
\* the request it sends at the first pull).
ProviderRaises ==
  /\ \/ callPc = "called"
     \/ callPc = "iterating" /\ (callAdapter = "anthropic" => yielded = 0)
  /\ \E error \in ProviderErrors : raised' = error
  /\ phase' = IF callPc = "iterating" THEN "iterate"
              ELSE IF callOp = "generate" THEN "request" ELSE "setup"
  /\ callPc' = "caught"
  /\ UNCHANGED <<callAdapter, callOp, attempts, thrown, observed, telemetry,
                 yielded>>
  /\ UNCHANGED callOthers

\* The adapter's handling of the error.  The class that holds
\* streamingToolUses throws enhanceError(error) to the retry utility for a
\* request or a setup, and has no catch around the iteration.
Catch ==
  /\ callPc = "caught"
  /\ CASE callAdapter = "openai" ->
            /\ telemetry' = Append(telemetry,
                 ApiEvent("error", OpenAIErrorMessage(raised, phase)))
            /\ observed' = OpenAIThrown(raised, phase)
            /\ callPc' = "threw"
            /\ UNCHANGED thrown
       [] callAdapter = "bedrockCalls" ->
            /\ telemetry' = Append(telemetry,
                                   ApiEvent("error", raised.message))
            /\ observed' = raised
            /\ callPc' = "threw"
            /\ UNCHANGED thrown
       [] callAdapter = "anthropic" ->
            /\ observed' = raised
            /\ callPc' = "threw"
            /\ UNCHANGED <<telemetry, thrown>>
       [] callAdapter = "bedrockUses" ->
            IF phase = "iterate"
            THEN /\ observed' = raised
                 /\ callPc' = "threw"
                 /\ UNCHANGED <<telemetry, thrown>>
            ELSE /\ thrown' = enhanceError(raised)
                 /\ callPc' = "retry"
                 /\ UNCHANGED <<telemetry, observed>>
  /\ UNCHANGED <<callAdapter, callOp, phase, attempts, raised, yielded>>
  /\ UNCHANGED callOthers

\* The retry utility calls the function again ...
RetryAgain ==
  /\ callPc = "retry"
  /\ attempts < maxAttempts
  /\ attempts' = attempts + 1
  /\ callPc' = "called"
  /\ thrown' = NoError
  /\ UNCHANGED <<callAdapter, callOp, phase, raised, observed, telemetry,
                 yielded>>
  /\ UNCHANGED callOthers

\* ... or rejects with the error thrown to it.
RetryGivesUp ==
  /\ callPc = "retry"
  /\ observed' = thrown
  /\ callPc' = "threw"
  /\ UNCHANGED <<callAdapter, callOp, phase, attempts, raised, thrown,
                 telemetry, yielded>>
  /\ UNCHANGED callOthers

\* The consumer pulls the generator.  The first pull of a generator that
\* was returned unstarted runs the blocking generate, which sends the
\* provider request.
Pull ==
  /\ callPc \in {"generator", "yielded"}
  /\ callPc' = "iterating"
  /\ attempts' = IF callPc = "generator" /\ ~SendsAtCall(callAdapter, callOp)
                 THEN attempts + 1
                 ELSE attempts
  /\ UNCHANGED <<callAdapter, callOp, phase, raised, thrown,
                 observed, telemetry, yielded>>
  /\ UNCHANGED callOthers

\* The generator yields a response: one per provider event, and for the
\* Anthropic-style generator the one blocking response.
ProviderYields ==
  /\ callPc = "iterating"
  /\ yielded < MaxResponses
  /\ callAdapter = "anthropic" => yielded = 0
  /\ yielded' = yielded + 1
  /\ callPc' = "yielded"
  /\ UNCHANGED <<callAdapter, callOp, phase, attempts, raised, thrown,
                 observed, telemetry>>
  /\ UNCHANGED callOthers

\* The generator completes; the wrapped generators log the response.
StreamEnds ==
  /\ callPc = "iterating"
  /\ callAdapter = "anthropic" => yielded = 1
  /\ callPc' = "finished"
  /\ telemetry' = Logged(callAdapter, telemetry, ApiEvent("response", ""))
  /\ UNCHANGED <<callAdapter, callOp, phase, attempts, raised, thrown,
                 observed, yielded>>
  /\ UNCHANGED callOthers

\* The consumer stops iterating at a yield.
Abandon ==
  /\ callPc = "yielded"
  /\ callPc' = "abandoned"
  /\ UNCHANGED <<callAdapter, callOp, phase, attempts, raised, thrown,
                 observed, telemetry, yielded>>
  /\ UNCHANGED callOthers

CallNext ==
  \/ Invoke
  \/ ProviderResponds
  \/ ProviderRaises
  \/ Catch
  \/ RetryAgain
  \/ RetryGivesUp
  \/ Pull
  \/ ProviderYields
  \/ StreamEnds
  \/ Abandon

SpecCall == CallInit /\ [][CallNext]_vars

(***************************************************************************)
(* Claims about failing calls.                                             *)
(***************************************************************************)
LastIsError(log) == log # <<>> /\ log[Len(log)].type = "error"

C11_OneTelemetryEventPerCall ==
  callPc \in {"returned", "finished", "threw", "abandoned"}
    => Len(telemetry) = 1


(***************************************************************************)
(* Decoding a provider's answer into canonical responses.                  *)
(***************************************************************************)
MaxToolCalls == 2
MaxChunks == 3

CompletionToolCall(type, id, name, arguments) ==
  [type |-> type, id |-> id, name |-> name, arguments |-> arguments]

\* choices[0] of a chat completion, and the completion's usage.
Completion(content, tool_calls, finish_reason, usage) ==
  [content |-> content, tool_calls |-> tool_calls,
   finish_reason |-> finish_reason, usage |-> usage]

\* What one tool call of a completion contributes; index is its position in
\* message.tool_calls.
CompletionPart(toolCall, index, isJsonSchemaRequest) ==
  IF toolCall.type # "function" THEN <<>>
  ELSE LET args == IF toolCall.arguments # <<>>
                   THEN safeJsonParse(toolCall.arguments, EmptyObject)
                   ELSE EmptyObject
           entry == [id |-> toolCall.id, name |-> toolCall.name,
                     arguments |-> toolCall.arguments, owner |-> 0,
                     serial |-> index]
       IN IF isJsonSchemaRequest /\ toolCall.name = "respond_in_schema"
          THEN <<SchemaText(entry, index, args)>>
          ELSE <<FunctionCallPart(entry, index, args)>>

\* The OpenAI-compatible adapter's decoder of a blocking answer.
convertToGeminiFormat(openaiResponse, isJsonSchemaRequest) ==
  LET textParts == IF openaiResponse.content # <<>>
                   THEN <<StreamText(openaiResponse.content)>> ELSE <<>>
      callParts ==
        Flatten([i \in 1..Len(openaiResponse.tool_calls) |->
                   CompletionPart(openaiResponse.tool_calls[i], i,
                                  isJsonSchemaRequest)])
      reason == IF openaiResponse.finish_reason = "" THEN "stop"
                ELSE openaiResponse.finish_reason
  IN Response(TRUE, textParts \o callParts, mapFinishReason(reason),
              OpenAIUsage(openaiResponse.usage), 0)

\* The OpenAI-compatible adapter's stream generator, run to the end of the
\* provider's stream: the responses it yields, in order.
RECURSIVE StreamResponses(_, _, _, _, _)
StreamResponses(a, chunks, isJsonSchemaRequest, serial, at) ==
  IF chunks = <<>> THEN <<>>
  ELSE LET h == convertStreamChunkToGeminiFormat(a, Head(chunks),
                  isJsonSchemaRequest, 1, serial, at, NoTokens)
       IN h.yields \o StreamResponses(h.acc, Tail(chunks),
                                      isJsonSchemaRequest, h.serial, at + 1)

streamGenerator(stream, isJsonSchemaRequest) ==
  StreamResponses(ResetAccumulators(EmptyMap), stream, isJsonSchemaRequest,
                  1, 1)

\* The Anthropic-style adapter's decoder.
ContentBlock(type, text, id, name, input) ==
  [type |-> type, text |-> text, id |-> id, name |-> name, input |-> input]

AnthropicMessage(content, stop_reason, input_tokens, output_tokens) ==
  [content |-> content, stop_reason |-> stop_reason,
   input_tokens |-> input_tokens, output_tokens |-> output_tokens]

\* A switch statement: its default takes every value no case names.
AnthropicMapStopReason(stopReason) ==
  CASE stopReason = "end_turn" -> "STOP"
    [] stopReason = "max_tokens" -> "MAX_TOKENS"
    [] stopReason = "stop_sequence" -> "STOP"
    [] stopReason = "tool_use" -> "STOP"
    [] OTHER -> "STOP"

AnthropicPart(block, index) ==
  IF block.type = "text" THEN <<StreamText(block.text)>>
  ELSE IF block.type = "tool_use"
  THEN <<FunctionCallPart([id |-> block.id, name |-> block.name,
                           arguments |-> <<>>, owner |-> 0,
                           serial |-> index],
                          index, block.input)>>
  ELSE <<>>

AnthropicConvertToGeminiFormat(anthropicResponse) ==
  Response(TRUE,
           Flatten([i \in 1..Len(anthropicResponse.content) |->
                      AnthropicPart(anthropicResponse.content[i], i)]),
           AnthropicMapStopReason(anthropicResponse.stop_reason),
           Usage(anthropicResponse.input_tokens,
                 anthropicResponse.output_tokens,
                 anthropicResponse.input_tokens
                   + anthropicResponse.output_tokens),
           0)

\* The answers of the model.  A reason of "" is an absent (null) reason;
\* "eos" and "pause_turn" are reasons the tables do not name.
OpenAIReasons ==
  {"", "stop", "length", "content_filter", "function_call", "tool_calls",
   "eos", "constructor"}

AnthropicReasons ==
  {"", "end_turn", "max_tokens", "stop_sequence", "tool_use", "pause_turn",
   "constructor"}

\* An absent count reads as 0: usage.prompt_tokens || 0.
ProviderUsages ==
  {NoProviderUsage}
    \cup { ProviderUsage(TRUE, p, c, t) :
             p \in {0, 3}, c \in {0, 4}, t \in {0, 5, 45, 100} }

CompletionToolCalls ==
  { CompletionToolCall("function", "c1", "f", FragA \o FragB),
    CompletionToolCall("function", "c2", "respond_in_schema", FragA \o FragB),
    CompletionToolCall("function", "c3", "respond_in_schema", FragA),
    CompletionToolCall("function", "", "respond_in_schema", <<>>),
    CompletionToolCall("custom", "c4", "respond_in_schema", FragA \o FragB) }

Completions ==
  { Completion(content, calls, reason, usage) :
      content \in {<<>>, <<"x">>},
      calls \in SeqsUpTo(CompletionToolCalls, MaxToolCalls),
      reason \in OpenAIReasons,
      usage \in ProviderUsages }

DecodeChunks ==
  { Chunk(TRUE, <<"x">>, <<>>, "", NoProviderUsage),
    Chunk(TRUE, <<>>, <<Delta(0, "c1", "respond_in_schema", FragA)>>, "",
          NoProviderUsage),
    Chunk(TRUE, <<>>, <<Delta(0, "", "", FragB)>>, "", NoProviderUsage),
    Chunk(TRUE, <<>>, <<Delta(1, "c2", "f", FragA \o FragB)>>, "",
          NoProviderUsage),
    Chunk(TRUE, <<>>, <<>>, "tool_calls", NoProviderUsage),
    Chunk(TRUE, <<>>, <<>>, "constructor", NoProviderUsage),
    Chunk(TRUE, <<>>,
          <<Delta(0, "c1", "respond_in_schema", FragA \o FragB)>>, "stop",
          NoProviderUsage),
    Chunk(FALSE, <<>>, <<>>, "", ProviderUsage(TRUE, 0, 0, 45)),
    Chunk(FALSE, <<>>, <<>>, "", ProviderUsage(TRUE, 0, 0, 100)),
    Chunk(FALSE, <<>>, <<>>, "", ProviderUsage(TRUE, 3, 4, 7)) }

ContentBlocks ==
  { ContentBlock("text", <<"x">>, "", "", EmptyObject),
    ContentBlock("tool_use", "", "c1", "f", [keys |-> 1]),
    ContentBlock("thinking", <<"y">>, "", "", EmptyObject) }

AnthropicMessages ==
  { AnthropicMessage(content, reason, i, o) :
      content \in SeqsUpTo(ContentBlocks, MaxToolCalls),
      reason \in AnthropicReasons, i \in {0, 3}, o \in {0, 4} }

(***************************************************************************)
(* The gateway adapter's answer to generateContent: a Converse output with *)
(* content blocks, a stop reason ("" when absent) and a usage.             *)
(***************************************************************************)
ConverseOutput(content, stopReason, usage) ==
  [content |-> content, stopReason |-> stopReason, usage |-> usage]

\* The class that holds streamingToolUses.
convertStopReason(stopReason) ==
  CASE stopReason = "end_turn" -> "STOP"
    [] stopReason = "max_tokens" -> "MAX_TOKENS"
    [] stopReason = "stop_sequence" -> "STOP"
    [] stopReason = "tool_use" -> "STOP"
    [] stopReason = "content_filtered" -> "SAFETY"
    [] OTHER -> "STOP"

ConversePart(block, index) ==
  IF block.text # <<>> THEN <<StreamText(block.text)>>
  ELSE IF block.type = "toolUse"
  THEN <<FunctionCallPart([id |-> block.id, name |-> block.name,
                           arguments |-> <<>>, owner |-> 0,
                           serial |-> index],
                          index, block.input)>>
  ELSE <<>>

ConverseParts(content) ==
  Flatten([i \in 1..Len(content) |-> ConversePart(content[i], i)])

BedrockUsesConvertToGeminiFormat(bedrockResponse) ==
  Response(TRUE,
           ConverseParts(bedrockResponse.content),
           IF bedrockResponse.stopReason # ""
           THEN convertStopReason(bedrockResponse.stopReason)
           ELSE "STOP",
           IF bedrockResponse.usage.present
           THEN Usage(bedrockResponse.usage.inputTokens,
                      bedrockResponse.usage.outputTokens,
                      bedrockResponse.usage.totalTokens)
           ELSE NoUsage,
           0)

BedrockCallsConvertToGeminiFormat(bedrockResponse) ==
  Response(TRUE,
           ConverseParts(bedrockResponse.content),
           mapStopReason(bedrockResponse.stopReason),
           IF bedrockResponse.usage.present
           THEN Usage(bedrockResponse.usage.inputTokens,
                      bedrockResponse.usage.outputTokens,
                      bedrockResponse.usage.inputTokens
                        + bedrockResponse.usage.outputTokens)
           ELSE NoUsage,
           0)

GatewayReasons ==
  {"", "end_turn", "max_tokens", "stop_sequence", "tool_use",
   "content_filtered", "guardrail_intervened", "model_context_window_exceeded"}

ConverseBlocks ==
  { ContentBlock("text", <<"x">>, "", "", EmptyObject),
    ContentBlock("toolUse", <<>>, "c1", "f", [keys |-> 1]) }

ConverseOutputs ==
  { ConverseOutput(content, reason, usage) :
      content \in SeqsUpTo(ConverseBlocks, MaxToolCalls),
      reason \in GatewayReasons,
      usage \in {NoBedrockUsage, BedrockUsage(TRUE, 5, 2, 7)} }

DecodeInit ==
  /\ AuthIdle
  /\ FallbackIdle
  /\ HygIdle
  /\ SendIdle
  /\ StreamIdle
  /\ CallIdle
  /\ SchemaIdle
  /\ decodePc = "ready"
  /\ decoded = <<>>
  /\ \/ /\ decoder = "openai"
        /\ decodeOp = "generate"
        /\ jsonSchema \in BOOLEAN
        /\ provided \in Completions
     \/ /\ decoder = "openai"
        /\ decodeOp = "generateStream"
        /\ jsonSchema \in BOOLEAN
        /\ provided \in SeqsUpTo(DecodeChunks, MaxChunks)
     \/ /\ decoder = "anthropic"
        /\ decodeOp = "generate"
        /\ jsonSchema = FALSE
        /\ provided \in AnthropicMessages
     \/ /\ decoder \in {"bedrockUses", "bedrockCalls"}
        /\ decodeOp = "generate"
        /\ jsonSchema = FALSE
        /\ provided \in ConverseOutputs

\* generateContent of the OpenAI-compatible adapter, from the provider's
\* answer on.
DecodeCompletion ==
  /\ decodePc = "ready"
  /\ decoder = "openai"
  /\ decodeOp = "generate"
  /\ decoded' = <<convertToGeminiFormat(provided, jsonSchema)>>
  /\ decodePc' = "decoded"
  /\ UNCHANGED <<decoder, decodeOp, jsonSchema, provided>>
  /\ UNCHANGED decodeOthers

\* generateContentStream of the OpenAI-compatible adapter, consumed to the
\* end of the provider's stream.
DecodeStream ==
  /\ decodePc = "ready"
  /\ decoder = "openai"
  /\ decodeOp = "generateStream"
  /\ decoded' = streamGenerator(provided, jsonSchema)
  /\ decodePc' = "decoded"
  /\ UNCHANGED <<decoder, decodeOp, jsonSchema, provided>>
  /\ UNCHANGED decodeOthers

\* generateContent of the Anthropic-style adapter, from the provider's
\* answer on.
DecodeMessage ==
  /\ decodePc = "ready"
  /\ decoder = "anthropic"
  /\ decoded' = <<AnthropicConvertToGeminiFormat(provided)>>
  /\ decodePc' = "decoded"
  /\ UNCHANGED <<decoder, decodeOp, jsonSchema, provided>>
  /\ UNCHANGED decodeOthers

\* generateContent of the gateway adapter, from the provider's answer on.
DecodeConverse ==
  /\ decodePc = "ready"
  /\ decoder \in {"bedrockUses", "bedrockCalls"}
  /\ decoded' = <<IF decoder = "bedrockUses"
                  THEN BedrockUsesConvertToGeminiFormat(provided)
                  ELSE BedrockCallsConvertToGeminiFormat(provided)>>
  /\ decodePc' = "decoded"
  /\ UNCHANGED <<decoder, decodeOp, jsonSchema, provided>>
  /\ UNCHANGED decodeOthers

DecodeNext ==
  DecodeCompletion \/ DecodeStream \/ DecodeMessage \/ DecodeConverse

SpecDecode == DecodeInit /\ [][DecodeNext]_vars


DecodedParts == Flatten([n \in 1..Len(decoded) |-> decoded[n].parts])

\* The function-typed calls to respond_in_schema in a blocking answer.
SchemaCalls ==
  { i \in 1..Len(provided.tool_calls) :
      /\ provided.tool_calls[i].type = "function"
      /\ provided.tool_calls[i].name = "respond_in_schema" }

IsUnwrapped(part) ==
  /\ part.type = "text"
  /\ part.text = JSONstringify(IF part.raw = <<>> THEN EmptyObject
                               ELSE safeJsonParse(part.raw, EmptyObject))

\* C12: in the answer to a request with a JSON-schema constraint, blocking
\* or streamed, no functionCall part names respond_in_schema; every part
\* made from a call to respond_in_schema is a text part holding the JSON
\* serialization of the call's parsed arguments; and a blocking answer has
\* one such text part for each call to respond_in_schema.
C12_SchemaCallUnwrapped ==
  (decodePc = "decoded" /\ decoder = "openai" /\ jsonSchema)
    => /\ \A i \in 1..Len(DecodedParts) :
            LET part == DecodedParts[i]
            IN /\ part.type = "functionCall"
                    => part.name # "respond_in_schema"
               /\ (part.serial # 0 /\ part.name = "respond_in_schema")
                    => IsUnwrapped(part)
       /\ decodeOp = "generate"
            => Cardinality({ i \in 1..Len(DecodedParts) :
                               /\ DecodedParts[i].serial # 0
                               /\ DecodedParts[i].name = "respond_in_schema" })
                 = Cardinality(SchemaCalls)

\* C12: a streamed answer to a JSON-schema request whose respond_in_schema
\* call arrived in two fragments was decoded into the text {k}.
C12_Witness ==
  /\ decodePc = "decoded"
  /\ decodeOp = "generateStream"
  /\ jsonSchema
  /\ Len(provided) = 3
  /\ provided[1].tool_calls # <<>>
  /\ provided[2].tool_calls # <<>>
  /\ \E i \in 1..Len(DecodedParts) :
       /\ DecodedParts[i].name = "respond_in_schema"
       /\ DecodedParts[i].type = "text"
       /\ DecodedParts[i].text = FragA \o FragB


\* C13: whatever native finish or stop reason the provider's answer
\* carries (a reason of the table, a string the table does not name, or
\* none), the finish reason of every decoded candidate is a member of the
\* canonical enum.
C13_FinishReasonIsCanonical ==
  decodePc = "decoded"
    => \A n \in 1..Len(decoded) :
         decoded[n].candidates => decoded[n].finishReason \in FinishReason


\* The usage records the provider sent, each with the usage metadata of
\* the response decoded from it.
UsagePairs ==
  IF decodeOp = "generate"
  THEN {<<provided.usage, decoded[1].usage>>}
  ELSE {<<provided[n].usage, decoded[n].usage>> : n \in 1..Len(provided)}

OnlyTotal(usage) ==
  /\ usage.total_tokens > 0
  /\ usage.prompt_tokens = 0
  /\ usage.completion_tokens = 0

\* C16 as stated: a usage record with a total and no breakdown is decoded
\* to prompt = round(0.7 * total), completion = round(0.3 * total), in exact
\* arithmetic, and the same total; any other record is passed through.
C16_SplitIsExactRounding ==
  (decodePc = "decoded" /\ decoder = "openai")
    => \A pair \in UsagePairs :
         pair[1].present
           => pair[2] = IF OnlyTotal(pair[1])
                        THEN Usage(RoundTenths(7 * pair[1].total_tokens),
                                   RoundTenths(3 * pair[1].total_tokens),
                                   pair[1].total_tokens)
                        ELSE ReportedUsage(pair[1])

\* C16: a usage record with a total and no breakdown is decoded to a
\* prompt count that is an integer nearest to 0.7 * total (an exact half
\* may go either way), a completion count of 0.3 * total rounded with
\* halves upwards, and the same total; any other record is passed through;
\* in blocking answers and in streamed chunks alike.
C16_SplitIsNearestInteger ==
  (decodePc = "decoded" /\ decoder = "openai")
    => \A pair \in UsagePairs :
         pair[1].present
           => IF OnlyTotal(pair[1])
              THEN /\ 10 * pair[2].promptTokenCount
                        - 7 * pair[1].total_tokens \in -5..5
                   /\ pair[2].candidatesTokenCount
                        = RoundTenths(3 * pair[1].total_tokens)
                   /\ pair[2].totalTokenCount = pair[1].total_tokens
                   /\ pair[1].total_tokens = 100
                        => pair[2] = Usage(70, 30, 100)
              ELSE pair[2] = ReportedUsage(pair[1])

\* C16: a blocking answer reporting only a total of 45 tokens was decoded
\* to 31 prompt and 14 completion tokens.
C16_Witness ==
  /\ decodePc = "decoded"
  /\ decodeOp = "generate"
  /\ provided.usage = ProviderUsage(TRUE, 0, 0, 45)
  /\ decoded[1].usage = Usage(31, 14, 45)


(***************************************************************************)
(* Tool parameter schemas and their sanitizers.  A schema is a tree of     *)
(* JSON objects; every object has an address, so that a copy can be told   *)
(* from the object it was copied from.  An address is the region the       *)
(* object was created in ("caller": the schema handed in) and the path of  *)
(* keys that leads to it.  Arrays hold strings and null only and are       *)
(* values.                                                                 *)
(***************************************************************************)
MaxNodes == 3

Absent == [kind |-> "undefined"]
JNull == [kind |-> "null"]
JFalse == [kind |-> "boolean"]
JString(s) == [kind |-> "string", s |-> s]
JArray(elems) == [kind |-> "array", elems |-> elems]
Address(region, path) == [region |-> region, path |-> path]
Ref(at) == [kind |-> "object", at |-> at]
Tree(fields) == [kind |-> "tree", fields |-> fields]

UpperObject == <<"O", "B", "J", "E", "C", "T">>
LowerObject == <<"o", "b", "j", "e", "c", "t">>
UpperString == <<"S", "T", "R", "I", "N", "G">>
LowerString == <<"s", "t", "r", "i", "n", "g">>
LowerNull == <<"n", "u", "l", "l">>

\* !value
Falsy(value) ==
  \/ value.kind \in {"undefined", "null", "boolean"}
  \/ value.kind = "string" /\ value.s = <<>>

Get(fields, key) == IF key \in DOMAIN fields THEN fields[key] ELSE Absent

Set(fields, key, value) ==
  [k \in (DOMAIN fields) \cup {key} |-> IF k = key THEN value ELSE fields[k]]

Field(key, value) == IF value = Absent THEN EmptyMap ELSE key :> value

\* The objects of a tree, each with its fields, the nested trees replaced
\* by references.
Shallow(region, tree, path) ==
  [k \in DOMAIN tree.fields |->
     IF tree.fields[k].kind = "tree"
     THEN Ref(Address(region, Append(path, k)))
     ELSE tree.fields[k]]

RECURSIVE Cells(_, _, _)
Cells(region, tree, path) ==
  {<<Address(region, path), Shallow(region, tree, path)>>}
    \cup UNION { Cells(region, tree.fields[k], Append(path, k)) :
                   k \in {j \in DOMAIN tree.fields :
                            tree.fields[j].kind = "tree"} }

HeapOf(cells) ==
  [at \in {c[1] : c \in cells} |-> (CHOOSE c \in cells : c[1] = at)[2]]

Moved(value, from, to) ==
  IF value.kind = "object" /\ value.at.region = from
  THEN Ref(Address(to, value.at.path))
  ELSE value

\* Using the object itself where a copy was to be made.
SameObject(h, root, to) == [heap |-> h, root |-> root]

\* JSON.parse(JSON.stringify(root)): a new object for every object of the
\* tree.
JSONcopy(h, root, to) ==
  LET from == root.at.region
      fresh == { Address(to, at.path) :
                   at \in {a \in DOMAIN h : a.region = from} }
  IN [heap |-> [at \in (DOMAIN h) \cup fresh |->
                  IF at \in fresh
                  THEN [k \in DOMAIN h[Address(from, at.path)] |->
                          Moved(h[Address(from, at.path)][k], from, to)]
                  ELSE h[at]],
      root |-> Ref(Address(to, root.at.path))]

\* value.find(t => typeof t === 'string' && t.toLowerCase() !== 'null')
RECURSIVE PrimaryType(_)
PrimaryType(elems) ==
  IF elems = <<>> THEN Absent
  ELSE IF /\ Head(elems).kind = "string"
          /\ toLowerCase(Head(elems).s) # LowerNull
       THEN Head(elems)
       ELSE PrimaryType(Tail(elems))

\* The branch of convertTypes for the key 'type'.
ConvertedType(value) ==
  CASE value.kind \in {"null", "undefined"} -> JString(LowerObject)
    [] value.kind = "array" ->
         IF Falsy(PrimaryType(value.elems)) THEN JString(LowerObject)
         ELSE JString(toLowerCase(PrimaryType(value.elems).s))
    [] value.kind = "string" -> JString(toLowerCase(value.s))
    [] OTHER -> value

\* The object convertTypes builds for one object: every key is copied, the
\* value of 'type' converted, any other object value replaced by the
\* object built for it.
ConvertedFields(fields, from, to) ==
  LET result == [k \in DOMAIN fields |->
                   IF k = "type" THEN ConvertedType(fields[k])
                   ELSE Moved(fields[k], from, to)]
  IN IF ~Falsy(Get(result, "properties")) /\ Falsy(Get(result, "type"))
     THEN Set(result, "type", JString(LowerObject))
     ELSE result

\* convertTypes(root): it descends through every key but 'type'.
convertTypes(h, root, to) ==
  LET from == root.at.region
      built == { Address(to, at.path) :
                   at \in {a \in DOMAIN h :
                             a.region = from /\ "type" \notin Range(a.path)} }
  IN [heap |-> [at \in (DOMAIN h) \cup built |->
                  IF at \in built
                  THEN ConvertedFields(h[Address(from, at.path)], from, to)
                  ELSE h[at]],
      root |-> Ref(Address(to, root.at.path))]

\* The checks on the root that follow convertTypes; lowered tells whether
\* the adapter has the step that lowercases a root type of 'OBJECT'.
FinishRoot(r, lowered) ==
  LET root == r.heap[r.root.at]
      typed == IF Falsy(Get(root, "type")) \/ root["type"].kind = "array"
               THEN Set(root, "type", JString(LowerObject))
               ELSE root
      lower == IF /\ lowered
                  /\ typed["type"].kind = "string"
                  /\ typed["type"] # JString(LowerObject)
                  /\ toLowerCase(typed["type"].s) = LowerObject
               THEN Set(typed, "type", JString(LowerObject))
               ELSE typed
      empty == Address("empty", <<>>)
  IN IF Falsy(Get(lower, "properties"))
     THEN [heap |-> [at \in (DOMAIN r.heap) \cup {empty} |->
                       IF at = empty THEN EmptyMap
                       ELSE IF at = r.root.at
                       THEN Set(lower, "properties", Ref(empty))
                       ELSE r.heap[at]],
           root |-> r.root]
     ELSE [heap |-> [r.heap EXCEPT ![r.root.at] = lower], root |-> r.root]

convertGeminiParametersToOpenAI(h, parameters) ==
  LET converted == JSONcopy(h, parameters, "copy")
  IN FinishRoot(convertTypes(converted.heap, converted.root, "result"), TRUE)

convertGeminiParametersToBedrock(h, parameters) ==
  LET converted == JSONcopy(h, parameters, "copy")
  IN FinishRoot(convertTypes(converted.heap, converted.root, "result"), FALSE)

\* obj.type.find(t => t !== 'null') || 'string'
RECURSIVE FirstNotNull(_)
FirstNotNull(elems) ==
  IF elems = <<>> THEN Absent
  ELSE IF Head(elems) # JString(LowerNull) THEN Head(elems)
       ELSE FirstNotNull(Tail(elems))

\* What traverse does to one object, in place.
Traversed(fields) ==
  LET typed == IF Get(fields, "type").kind = "array"
               THEN Set(fields, "type",
                        IF Falsy(FirstNotNull(fields["type"].elems))
                        THEN JString(LowerString)
                        ELSE FirstNotNull(fields["type"].elems))
               ELSE fields
  IN [k \in (DOMAIN typed) \ {"additionalProperties"} |-> typed[k]]

\* traverse(root): it visits every object below the root.
traverse(h, root) ==
  [at \in DOMAIN h |->
     IF at.region = root.at.region THEN Traversed(h[at]) ELSE h[at]]

sanitizeJsonSchema(h, input) ==
  LET copy == JSONcopy(h, input, "copy")
      root == copy.heap[copy.root.at]
      wrapper == Address("wrapper", <<>>)
      properties == Address("wrapper", <<"properties">>)
  IN IF Falsy(Get(root, "type"))
     THEN [heap |-> traverse([copy.heap EXCEPT ![copy.root.at] =
                                Set(root, "type", JString(LowerObject))],
                             copy.root),
           root |-> copy.root]
     ELSE IF root["type"] # JString(LowerObject)
     THEN [heap |-> [at \in (DOMAIN copy.heap) \cup {wrapper, properties} |->
                       IF at = wrapper
                       THEN ("type" :> JString(LowerObject))
                              @@ ("properties" :> Ref(properties))
                              @@ ("required" :> JArray(<<JString(<<"v">>)>>))
                       ELSE IF at = properties
                       THEN "value" :> copy.root
                       ELSE copy.heap[at]],
           root |-> Ref(wrapper)]
     ELSE [heap |-> traverse(copy.heap, copy.root), root |-> copy.root]

\* The schemas of the model: a schema is a leaf or declares properties
\* named a and type; n bounds the number of schemas in the tree.
ObjectTypes ==
  {Absent, JString(UpperObject), JString(LowerObject),
   JArray(<<JString(LowerObject), JString(LowerNull)>>)}

Leaves ==
  { Tree(Field("type", t)) :
      t \in {JNull, JArray(<<JString(UpperString), JString(LowerNull)>>)} }
    \cup {Tree(("type" :> JString(LowerString))
                 @@ ("additionalProperties" :> JFalse))}

RECURSIVE Sized(_)
Sized(n) ==
  IF n = 0 THEN {}
  ELSE Leaves
         \cup { Tree(Field("type", t)) : t \in ObjectTypes }
         \cup UNION { { Tree(Field("type", t)
                             @@ ("properties" :>
                                   Tree(Field("a", a) @@ Field("type", b)))) :
                          t \in ObjectTypes,
                          a \in Sized(i) \cup {Absent},
                          b \in Sized(n - 1 - i) \cup {Absent} } :
                      i \in 0..(n - 1) }

Sanitizers == {"openai", "bedrockUses", "bedrockCalls"}

SchemaInit ==
  /\ AuthIdle
  /\ FallbackIdle
  /\ HygIdle
  /\ SendIdle
  /\ StreamIdle
  /\ CallIdle
  /\ DecodeIdle
  /\ sanitizer \in Sanitizers
  /\ schemaPc = "given"
  /\ \E tree \in Sized(MaxNodes) :
       heap = HeapOf(Cells("caller", tree, <<>>))
  /\ given = heap
  /\ schema = Ref(Address("caller", <<>>))
  /\ sanitized = Absent

Sanitized(result) ==
  /\ heap' = result.heap
  /\ sanitized' = result.root
  /\ schemaPc' = "sanitized"
  /\ UNCHANGED <<sanitizer, given, schema>>
  /\ UNCHANGED schemaOthers

SanitizeOpenAI ==
  /\ schemaPc = "given"
  /\ sanitizer = "openai"
  /\ Sanitized(convertGeminiParametersToOpenAI(heap, schema))

SanitizeBedrockUses ==
  /\ schemaPc = "given"
  /\ sanitizer = "bedrockUses"
  /\ Sanitized(sanitizeJsonSchema(heap, schema))

SanitizeBedrockCalls ==
  /\ schemaPc = "given"
  /\ sanitizer = "bedrockCalls"
  /\ Sanitized(convertGeminiParametersToBedrock(heap, schema))

SchemaNext == SanitizeOpenAI \/ SanitizeBedrockUses \/ SanitizeBedrockCalls

SpecSchema == SchemaInit /\ [][SchemaNext]_vars


\* The schemas of a tree: its root, and the schemas its properties declare.
RECURSIVE SchemaNodes(_, _)
SchemaNodes(h, at) ==
  LET properties == Get(h[at], "properties")
      declared ==
        IF properties.kind = "object"
        THEN { h[properties.at][k].at :
                 k \in {j \in DOMAIN h[properties.at] :
                          h[properties.at][j].kind = "object"} }
        ELSE {}
  IN {at} \cup UNION { SchemaNodes(h, d) : d \in declared }

\* The objects of a tree.
RECURSIVE Reach(_, _)
Reach(h, at) ==
  {at} \cup UNION { Reach(h, h[at][k].at) :
                      k \in {j \in DOMAIN h[at] : h[at][j].kind = "object"} }

IsLowercaseString(value) ==
  value.kind = "string" /\ toLowerCase(value.s) = value.s

\* C14: in the tree a sanitizer returns, the type of every schema that has
\* one is a single lowercase string, and every schema that declares
\* properties has the type "object".
C14_TypesAreLowercaseStrings ==
  schemaPc = "sanitized"
    => \A at \in SchemaNodes(heap, sanitized.at) :
         /\ "type" \in DOMAIN heap[at]
              => IsLowercaseString(heap[at]["type"])
         /\ "properties" \in DOMAIN heap[at]
              => Get(heap[at], "type") = JString(LowerObject)

\* C15: when a sanitizer has returned, every object of the caller's schema
\* has the fields it had when the sanitizer was called, and no object of
\* the returned tree is an object of the caller's schema.
C15_CallerSchemaUntouched ==
  schemaPc = "sanitized"
    => /\ \A at \in DOMAIN given : heap[at] = given[at]
       /\ Reach(heap, sanitized.at) \cap DOMAIN given = {}

\* C15: a schema that declares a property named type and holds an array
\* type to rewrite was sanitized.
C15_Witness ==
  /\ schemaPc = "sanitized"
  /\ \E at \in DOMAIN given :
       /\ at.path # <<>>
       /\ "type" \in Range(at.path)
       /\ Get(given[at], "type").kind = "array"
  /\ Reach(heap, sanitized.at) # {sanitized.at}


\* The texts of the request's parts that are flagged as thought.
ThoughtTexts ==
  { request.contents[i].parts[j].text :
      <<i, j>> \in { <<i, j>> \in (DOMAIN request.contents) \X (1..2) :
                       /\ j \in DOMAIN request.contents[i].parts
                       /\ request.contents[i].parts[j].kind = "text"
                       /\ request.contents[i].parts[j].thought } }

\* The ordinary text of the messages sent: message contents of the
\* OpenAI-compatible adapter, text blocks of the others.
SentTexts ==
  IF adapter = "openai"
  THEN { sent[i].content.s : i \in DOMAIN sent }
  ELSE { sent[i].content[j].text :
           <<i, j>> \in { <<i, j>> \in (DOMAIN sent) \X (1..(2 * MaxTurns)) :
                            /\ j \in DOMAIN sent[i].content
                            /\ sent[i].content[j].type = "text" } }

\* C17: the text of a part flagged as thought occurs in no ordinary text
\* of the messages sent, whatever the adapter and the shape of the
\* request's contents.
C17_ThoughtTextNeverSent ==
  sendPc \in {"sent", "resent"}
    => \A thought \in ThoughtTexts :
         \A text \in SentTexts : ~includes(text, thought)


\* The list has a tool-result message for the call id.
HasResult(messages, id) ==
  \E k \in DOMAIN messages :
    messages[k].role = "tool" /\ messages[k].tool_call_id = id

AnsweredCalls(messages, m) ==
  SelectSeq(m.tool_calls, LAMBDA tc : tc.id # "" /\ HasResult(messages, tc.id))

\* What the claim leaves of one assistant message; hasText says whether
\* the message counts as having text.
AssistantKept(messages, m, hasText) ==
  IF ~m.has_tool_calls THEN <<m>>
  ELSE IF AnsweredCalls(messages, m) # <<>>
  THEN <<[m EXCEPT !.tool_calls = AnsweredCalls(messages, m)]>>
  ELSE IF hasText
  THEN <<[m EXCEPT !.has_tool_calls = FALSE, !.tool_calls = <<>>]>>
  ELSE <<>>

Assistants(messages) == SelectSeq(messages, LAMBDA m : m.role = "assistant")

\* C18 as stated: after the cleaning step the assistant messages are those
\* of the input, each with exactly its calls that have a tool-result
\* message; one left without calls is kept, stripped of its calls, when
\* its text is non-empty, and is dropped when it has no text.
C18_KeptWhenTextNonEmpty ==
  hygPc = "cleaned"
    => Assistants(hygOut)
         = Flatten([i \in DOMAIN Assistants(hygIn) |->
                      LET m == Assistants(hygIn)[i]
                      IN AssistantKept(hygIn, m,
                                       m.content.str /\ m.content.s # <<>>)])

\* C18: the same, a message counting as having text when its text is not
\* empty once surrounding whitespace is removed.
C18_KeptWhenTextNotBlank ==
  hygPc = "cleaned"
    => Assistants(hygOut)
         = Flatten([i \in DOMAIN Assistants(hygIn) |->
                      LET m == Assistants(hygIn)[i]
                      IN AssistantKept(hygIn, m,
                                       m.content.str
                                         /\ trim(m.content.s) # <<>>)])

\* C18: an assistant message with text whose only call, c1, has no result
\* was cleaned: it is kept without the call.
C18_Witness ==
  /\ hygPc = "cleaned"
  /\ Len(hygIn) = 1
  /\ hygIn[1] = Msg("assistant", Str(<<"a">>), TRUE, <<ToolCall("c1", "f")>>, "")
  /\ hygOut = <<Msg("assistant", Str(<<"a">>), FALSE, <<>>, "")>>

\* The messages of the list that are not assistant messages, with their
\* positions.
Others(messages) ==
  SelectSeq([i \in DOMAIN messages |-> [at |-> i, m |-> messages[i]]],
            LAMBDA x : x.m.role # "assistant")

IsResult(m) == m.role = "tool" /\ m.tool_call_id # ""

\* The ids of the tool calls in the list.
CallIdsIn(messages) ==
  UNION { {m.tool_calls[k].id : k \in DOMAIN m.tool_calls} :
            m \in {x \in Range(messages) :
                     x.role = "assistant" /\ x.has_tool_calls} } \ {""}

\* C19: after the cleaning step the messages other than assistant
\* messages are those of the input, in their order, without the tool
\* results whose id belongs to no call and without every tool result that
\* has an earlier tool result for the same id: of several results for one
\* call exactly the first is kept.
C19_FirstResultKept ==
  hygPc = "cleaned"
    => LET kept ==
             SelectSeq(Others(hygIn),
                       LAMBDA x :
                         IsResult(x.m)
                           => /\ x.m.tool_call_id \in CallIdsIn(hygIn)
                              /\ \A j \in 1..(x.at - 1) :
                                   IsResult(hygIn[j])
                                     => hygIn[j].tool_call_id
                                          # x.m.tool_call_id)
       IN [i \in DOMAIN Others(hygOut) |-> Others(hygOut)[i].m]
            = [i \in DOMAIN kept |-> kept[i].m]

\* C19: two results for c1 followed the call c1; one was kept.
C19_Witness ==
  /\ hygPc = "cleaned"
  /\ Len(hygIn) = 3
  /\ IsAssistantWithCalls(hygIn[1])
  /\ hygIn[2] = Msg("tool", Str(<<"r">>), FALSE, <<>>, "c1")
  /\ hygIn[3] = hygIn[2]
  /\ Len(hygOut) = 2
  /\ hygOut[2] = hygIn[2]


\* The length of the run a non-empty list starts with: the assistant
\* messages up to the first message of another role, or that one message.
RunLength(messages) ==
  IF messages[1].role # "assistant" THEN 1
  ELSE CHOOSE n \in 1..Len(messages) :
         /\ \A i \in 1..n : messages[i].role = "assistant"
         /\ n = Len(messages) \/ messages[n + 1].role # "assistant"

\* The list cut into its maximal runs.
RECURSIVE Runs(_)
Runs(messages) ==
  IF messages = <<>> THEN <<>>
  ELSE <<SubSeq(messages, 1, RunLength(messages))>>
         \o Runs(SubSeq(messages, RunLength(messages) + 1, Len(messages)))

\* The one message that stands for a run.
OneMessage(run) ==
  IF Len(run) = 1 THEN run[1]
  ELSE LET text == Flatten([i \in DOMAIN run |->
                              IF run[i].content.str THEN run[i].content.s
                              ELSE <<>>])
           calls == Flatten([i \in DOMAIN run |->
                               IF run[i].has_tool_calls THEN run[i].tool_calls
                               ELSE <<>>])
       IN Msg("assistant", IF text # <<>> THEN Str(text) ELSE NullContent,
              calls # <<>>, calls, "")

\* C20: the list after the merging step has no two adjacent assistant
\* messages; it is the cleaned list with each maximal run of assistant
\* messages replaced by one assistant message whose text is the run's texts
\* concatenated in order and whose tool calls are the run's tool calls
\* concatenated in order, every other message staying where it was.
C20_RunsMergedInOrder ==
  hygPc = "merged"
    => LET runs == Runs(cleanOrphanedToolCalls(hygIn))
       IN /\ hygOut = [i \in DOMAIN runs |-> OneMessage(runs[i])]
          /\ \A i \in 1..(Len(hygOut) - 1) :
               ~(hygOut[i].role = "assistant"
                   /\ hygOut[i + 1].role = "assistant")

\* C20: an assistant message with text a and one with text " " and the
\* call c1 were merged into one message ahead of the result for c1.
C20_Witness ==
  /\ hygPc = "merged"
  /\ Len(hygIn) = 3
  /\ Len(hygOut) = 2
  /\ hygOut[1] = Msg("assistant", Str(<<"a", " ">>), TRUE,
                     <<ToolCall("c1", "f")>>, "")
  /\ hygOut[2].role = "tool"


\* C21 (as claimed): when the same request is converted again, whether by
\* generate or by generate-stream and whichever of the two ran before, the
\* message list handed to the provider equals the list of the first
\* conversion.
C21_ReconversionIdentical ==
  sendPc = "resent" => sent = previous


\* C22 (as claimed): when the completion boundary of a streamed tool call
\* arrives and the fragments buffered for it are not a JSON document
\* (empty, truncated or malformed), the stream does not fail there: the
\* response to the boundary carries the call, with the empty object or the
\* repaired value as its arguments.
C22_InvalidArgumentsStillEmitted ==
  \A s \in Streams :
    \A n \in 1..Len(events[s]) : \A m \in 1..n : \A i \in Indexes :
      ( /\ IsHead(kind, events[s][m], i)
        /\ IsBoundary(kind, events[s][n], i)
        /\ \A b \in m..(n - 1) : ~IsBoundary(kind, events[s][b], i)
        /\ ~IsDocument(Received(kind, events[s], i, n)) )
      => \E pos \in Built(s) :
           /\ out[s][pos[1]].at = n
           /\ PartAt(s, pos).index = i
           /\ PartAt(s, pos).args =
                safeJsonParse(Received(kind, events[s], i, n), EmptyObject)


\* The responses a stream emitted in answer to its n-th event.
ResponsesTo(s, n) == { r \in 1..Len(out[s]) : out[s][r].at = n }

\* C23 (as claimed): in a stream of the gateway adapter, every metadata
\* event, wherever it stands among the block events and the message stop,
\* is answered by exactly one response, which carries the usage of the
\* event and no content part.
C23_MetadataEmitsUsageResponse ==
  kind \in {"bedrockUses", "bedrockCalls"} =>
    \A s \in Streams : \A n \in 1..Len(events[s]) :
      events[s][n].type = "metadata" =>
        /\ Cardinality(ResponsesTo(s, n)) = 1
        /\ \A r \in ResponsesTo(s, n) :
             /\ out[s][r].parts = <<>>
             /\ out[s][r].usage = Usage(events[s][n].usage.inputTokens,
                                        events[s][n].usage.outputTokens,
                                        events[s][n].usage.totalTokens)


\* The usage a metadata event carries, as the caller is to see it.
UsageOf(e) == Usage(e.usage.inputTokens, e.usage.outputTokens, e.usage.totalTokens)

\* C30 (as claimed): in a stream of the gateway adapter that has received
\* both a metadata event and the message stop, in either order, a usage
\* has been reported to the caller and every usage reported equals the
\* usage of the metadata event.
C30_ReportedUsageIsProviderUsage ==
  kind \in {"bedrockUses", "bedrockCalls"} =>
    \A s \in Streams : \A n \in 1..Len(events[s]) :
      ( /\ events[s][n].type = "metadata"
        /\ \E m \in 1..Len(events[s]) : events[s][m].type = "messageStop" )
      => /\ \E r \in 1..Len(out[s]) : out[s][r].usage # NoUsage
         /\ \A r \in 1..Len(out[s]) :
              out[s][r].usage # NoUsage => out[s][r].usage = UsageOf(events[s][n])


\* The finish-reason tables as the specification lists them.
OpenAITable ==
  ("stop" :> "STOP") @@ ("length" :> "MAX_TOKENS")
    @@ ("content_filter" :> "SAFETY") @@ ("tool_calls" :> "STOP")

AnthropicTable ==
  ("end_turn" :> "STOP") @@ ("max_tokens" :> "MAX_TOKENS")
    @@ ("stop_sequence" :> "STOP") @@ ("tool_use" :> "STOP")

GatewayTable ==
  AnthropicTable @@ ("content_filtered" :> "SAFETY")
    @@ ("guardrail_intervened" :> "SAFETY")

\* The provider's reason in a blocking answer, and the table of its adapter.
ProvidedReason ==
  CASE decoder = "openai" -> provided.finish_reason
    [] decoder = "anthropic" -> provided.stop_reason
    [] OTHER -> provided.stopReason

TableOf(a) ==
  CASE a = "openai" -> OpenAITable
    [] a = "anthropic" -> AnthropicTable
    [] OTHER -> GatewayTable

\* C24 (as claimed): every adapter maps each provider reason of its table
\* to the canonical reason the table gives, and both classes of the
\* gateway adapter implement the whole gateway table.
C24_FinishReasonTables ==
  (decodePc = "decoded" /\ decodeOp = "generate")
    => (ProvidedReason \in DOMAIN TableOf(decoder)
          => decoded[1].finishReason = TableOf(decoder)[ProvidedReason])


\* The names an object value declares (none for a value that is no object).
Names(h, value) == IF value.kind = "object" THEN DOMAIN h[value.at] ELSE {}

\* C25 (as claimed): the root of the schema a sanitizer returns has the
\* type "object" whenever the root type of the input was missing, null or
\* an array, and has a properties object, which declares the names the
\* input's properties declared and is empty when the input had none.
C25_RootIsObjectWithProperties ==
  schemaPc = "sanitized"
    => LET input == given[schema.at]
           result == heap[sanitized.at]
       IN /\ Get(input, "type").kind \in {"undefined", "null", "array"}
               => Get(result, "type") = JString(LowerObject)
          /\ Get(result, "properties").kind = "object"
          /\ Names(heap, Get(result, "properties"))
               = Names(given, Get(input, "properties"))


\* The messages of the turns of a request, one for every turn that yields
\* a content block, before the Anthropic-style adapter coerces them.
TurnBlocks(req) ==
  Flatten([i \in DOMAIN req.contents |->
             LET pc == processContentParts(req.contents[i])
             IN IF Len(pc.contentBlocks) > 0
                THEN <<BlockMsg(pc.role, pc.contentBlocks, FALSE)>>
                ELSE <<>>])

\* The content blocks of a list in order, and the role each stands under.
BlocksOf(messages) ==
  Flatten([i \in DOMAIN messages |-> messages[i].content])

RolesOf(messages) ==
  Flatten([i \in DOMAIN messages |->
             [j \in DOMAIN messages[i].content |-> messages[i].role]])

NoAdjacentSameRole(messages) ==
  \A i \in 1..(Len(messages) - 1) : messages[i].role # messages[i + 1].role

\* The list without the synthetic user message, when it starts with one.
WithoutSynthetic(messages) ==
  IF messages # <<>> /\ messages[1] = ContinueMessage THEN Tail(messages)
  ELSE messages

\* The blocks of the turns are the blocks of the list, in order and each
\* under the role of its turn.
SameBlocks(turns, messages) ==
  /\ BlocksOf(messages) = BlocksOf(turns)
  /\ RolesOf(messages) = RolesOf(turns)

\* The Anthropic-style adapter converts an array of turns.
AnthropicSends ==
  adapter = "anthropic" /\ ~request.single /\ sendPc' # sendPc

\* C26 (as claimed): for every sequence of turns, the list the
\* Anthropic-style adapter sends starts with a user message, has no two
\* adjacent messages of one role, holds the blocks of the turns in their
\* order with adjacent turns of one role merged, and starts with a
\* synthetic user message when the first turn is a model turn.
C26_StartsWithUserAndAlternates ==
  [][AnthropicSends =>
       /\ sent' # <<>> /\ sent'[1].role = "user"
       /\ NoAdjacentSameRole(sent')
       /\ SameBlocks(TurnBlocks(request), WithoutSynthetic(sent'))
       /\ (request.contents # <<>> /\ request.contents[1].role = "model")
            => sent'[1] = ContinueMessage]_vars

\* C26 (amended): a turn that yields no content block gives no message;
\* the list sent is empty when no turn yields one, and otherwise starts
\* with a user message, has no two adjacent messages of one role and holds
\* the blocks of the turns in their order, adjacent turns of one role
\* merged; it starts with a synthetic user message exactly when the first
\* turn that yields a block is a model turn.
C26_AlternatesWhenNotEmpty ==
  [][AnthropicSends =>
       LET turns == TurnBlocks(request)
       IN /\ sent' = <<>> <=> turns = <<>>
          /\ sent' # <<>> => sent'[1].role = "user"
          /\ NoAdjacentSameRole(sent')
          /\ \A i \in DOMAIN sent' : sent'[i].content # <<>>
          /\ SameBlocks(turns, WithoutSynthetic(sent'))
          /\ (turns # <<>> /\ turns[1].role = "assistant")
               <=> (sent' # <<>> /\ sent'[1] = ContinueMessage)]_vars

\* C26 witness: three turns, model, model, user, were sent as a synthetic
\* user message, one assistant message and one user message.
C26_Witness ==
  /\ adapter = "anthropic"
  /\ sendPc = "sent"
  /\ Len(request.contents) = 3
  /\ request.contents[1].role = "model"
  /\ request.contents[2].role = "model"
  /\ request.contents[3].role = "user"
  /\ Len(sent) = 3
  /\ sent[1] = ContinueMessage
  /\ Len(sent[2].content) = 3


(***************************************************************************)
(* handleFallback.  The repository holds three versions of it: the one     *)
(* that resolves a fallback policy chain ("policy"), the one that knows    *)
(* the preview model ("preview") and the one that falls back to the flash  *)
(* model only ("flash").  The external handler, refreshAuth and the policy *)
(* helpers are outside the function: what they answer is chosen freely.    *)
(***************************************************************************)
Versions == {"policy", "preview", "flash"}
AuthTypes == {"USE_GEMINI", "USE_OPENAI", "LOGIN_WITH_GOOGLE", "USE_VERTEX_AI"}
DEFAULT_GEMINI_FLASH_MODEL == "flash"
DEFAULT_GEMINI_MODEL == "pro"
PREVIEW_GEMINI_MODEL == "preview"
Models == {DEFAULT_GEMINI_FLASH_MODEL, DEFAULT_GEMINI_MODEL, PREVIEW_GEMINI_MODEL}
ErrorKinds == {"Error", "ModelNotFoundError", "TerminalQuotaError"}
Intents ==
  {"retry", "retry_always", "retry_once", "stop", "retry_later", "upgrade",
   "auth", "undefined"}
CurrentKey == <<"k">>
EnvKeys == {<<>>, <<" ">>, <<"k", " ">>, <<"n">>}

\* authType === AuthType.USE_GEMINI || authType === AuthType.USE_OPENAI
\* decided as if no auth type were an API-key mode.
NoApiKeyAuth == FALSE

IsApiKeyAuth == authType \in {"USE_GEMINI", "USE_OPENAI"}

\* The versions that hand the failure to the external handler before they
\* look for a new key.
ConsultsHandler == fbVersion \in {"preview", "flash"}

RetryIntents ==
  IF fbVersion = "flash" THEN {"retry"} ELSE {"retry_always", "retry_once"}

\* tryRotateApiKey as if it did not compare the key of the environment
\* with the current key.
FindsAnyKey ==
  /\ authType \in {"USE_GEMINI", "USE_OPENAI"}
  /\ trim(env) # <<>>
  /\ config.configured

\* tryRotateApiKey up to its call of refreshAuth: there is a key in the
\* environment, a content generator config, and the keys differ.
FindsNewKey ==
  /\ authType \in {"USE_GEMINI", "USE_OPENAI"}
  /\ trim(env) # <<>>
  /\ config.configured
  /\ config.apiKey # trim(env)

\* tryRotateApiKey, given whether refreshAuth resolves.
tryRotateApiKey(resolves) == FindsNewKey /\ resolves

\* What a call of tryRotateApiKey saw and did.
Rotation(resolves) ==
  [called |-> TRUE, authType |-> authType, newApiKey |-> trim(env),
   configured |-> config.configured, apiKey |-> config.apiKey,
   refreshAuth |-> IF ~FindsNewKey THEN "not called"
                   ELSE IF resolves THEN "resolved" ELSE "rejected",
   result |-> tryRotateApiKey(resolves)]

\* refreshAuth reloads the auth configuration with the key of the
\* environment.
Refreshed(rotated) ==
  IF rotated THEN [config EXCEPT !.apiKey = trim(env)] ELSE config

Return(value) ==
  /\ fbResult' = value
  /\ fbPc' = "returned"

\* A try block without its catch: the error goes to the caller.
Uncaught(value) == value

\* catch (handlerError) { log; return null; } around the handler call and
\* the processing of its intent.
Caught(value) == IF value = "throw" THEN "null" ELSE value

\* activateFallbackMode
activateFallbackMode(c) ==
  IF ~c.fallbackMode THEN [c EXCEPT !.fallbackMode = TRUE] ELSE c

\* activatePreviewModelFallbackMode
activatePreviewModelFallbackMode(c) ==
  IF ~c.previewFallback THEN [c EXCEPT !.previewFallback = TRUE] ELSE c

FallbackInit ==
  /\ AuthIdle
  /\ HygIdle
  /\ SendIdle
  /\ StreamIdle
  /\ CallIdle
  /\ DecodeIdle
  /\ SchemaIdle
  /\ fbVersion \in Versions
  /\ fbPc = "called"
  /\ authType \in AuthTypes
  /\ failedModel \in Models
  /\ errorKind \in ErrorKinds
  /\ env \in EnvKeys
  /\ \E configured, handler, fallbackMode, previewFallback \in BOOLEAN :
       config = ConfigObject(CurrentKey, configured, handler, fallbackMode,
                             FALSE, previewFallback, failedModel)
  /\ atCall = config
  /\ intent = "none"
  /\ rotations = 0
  /\ transitions = 0
  /\ fbResult = "pending"
  /\ rotation = NoRotation
  /\ selection = "none"
  /\ fallbackModel = ""

\* handleFallback up to its first await.
HandleFallback ==
  /\ fbPc = "called"
  /\ fbPc' = IF IsApiKeyAuth
             THEN (IF ConsultsHandler /\ config.handler THEN "handler"
                   ELSE "rotate")
             ELSE "oauth"
  /\ UNCHANGED <<fbVersion, authType, failedModel, errorKind, env, config,
                 atCall, intent, rotations, transitions, fbResult, rotation,
                 selection, fallbackModel>>
  /\ UNCHANGED fallbackOthers

\* The external handler answers; it may have put another key into the
\* environment.
HandlerAnswers ==
  /\ fbPc = "handler"
  /\ intent' \in Intents
  /\ env' \in EnvKeys
  /\ fbPc' = "rotateAfterHandler"
  /\ UNCHANGED <<fbVersion, authType, failedModel, errorKind, config, atCall,
                 rotations, transitions, fbResult, rotation, selection,
                 fallbackModel>>
  /\ UNCHANGED fallbackOthers

\* The external handler throws: the catch logs, and the built-in rotation
\* follows.
HandlerThrows ==
  /\ fbPc = "handler"
  /\ intent' = "throws"
  /\ fbPc' = "rotate"
  /\ UNCHANGED <<fbVersion, authType, failedModel, errorKind, env, config,
                 atCall, rotations, transitions, fbResult, rotation,
                 selection, fallbackModel>>
  /\ UNCHANGED fallbackOthers

\* The rotation tried after the external handler ran.
RotateAfterHandler ==
  /\ fbPc = "rotateAfterHandler"
  /\ \E resolves \in BOOLEAN :
       LET rotatedAfterHandler == tryRotateApiKey(resolves)
       IN /\ config' = Refreshed(rotatedAfterHandler)
          /\ rotation' = Rotation(resolves)
          /\ rotations' = IF rotatedAfterHandler THEN rotations + 1
                          ELSE rotations
          /\ IF rotatedAfterHandler THEN Return("true")
             ELSE IF intent \in RetryIntents THEN Return("true")
             ELSE IF intent = "stop" THEN Return("false")
             ELSE fbPc' = "rotate" /\ UNCHANGED fbResult
  /\ UNCHANGED <<fbVersion, authType, failedModel, errorKind, env, atCall,
                 intent, transitions, selection, fallbackModel>>
  /\ UNCHANGED fallbackOthers

\* The built-in rotation.
Rotate ==
  /\ fbPc = "rotate"
  /\ \E resolves \in BOOLEAN :
       LET rotated == tryRotateApiKey(resolves)
       IN /\ config' = Refreshed(rotated)
          /\ rotation' = Rotation(resolves)
          /\ rotations' = IF rotated THEN rotations + 1 ELSE rotations
          /\ Return(IF rotated THEN "true" ELSE "null")
  /\ UNCHANGED <<fbVersion, authType, failedModel, errorKind, env, atCall,
                 intent, transitions, selection, fallbackModel>>
  /\ UNCHANGED fallbackOthers

\* The OAuth fallback of the version that knows the flash model only.
OAuthFlash ==
  /\ fbPc = "oauth"
  /\ fbVersion = "flash"
  /\ IF \/ authType # "LOGIN_WITH_GOOGLE"
        \/ failedModel = DEFAULT_GEMINI_FLASH_MODEL
        \/ ~config.handler
     THEN Return("null") /\ UNCHANGED <<config, intent>>
     ELSE \/ \E i \in Intents :
               /\ intent' = i
               /\ CASE i = "retry" ->
                         config' = activateFallbackMode(config) /\ Return("true")
                    [] i = "stop" ->
                         config' = activateFallbackMode(config) /\ Return("false")
                    [] i = "auth" -> UNCHANGED config /\ Return("false")
                    [] OTHER -> UNCHANGED config /\ Return(Caught("throw"))
          \/ /\ intent' = "throws"
             /\ Return(Caught("throw"))
             /\ UNCHANGED config
  /\ UNCHANGED <<fbVersion, authType, failedModel, errorKind, env, atCall,
                 rotations, transitions, rotation, selection, fallbackModel>>
  /\ UNCHANGED fallbackOthers

\* The OAuth fallback of the version that knows the preview model.
OAuthPreview ==
  /\ fbPc = "oauth"
  /\ fbVersion = "preview"
  /\ LET shouldActivatePreviewFallback ==
           failedModel = PREVIEW_GEMINI_MODEL /\ errorKind # "TerminalQuotaError"
         bypassed == IF shouldActivatePreviewFallback
                     THEN [config EXCEPT !.previewBypass = TRUE] ELSE config
     IN IF \/ authType # "LOGIN_WITH_GOOGLE"
           \/ (errorKind = "ModelNotFoundError"
                 /\ failedModel # PREVIEW_GEMINI_MODEL)
        THEN Return("null") /\ UNCHANGED <<config, intent>>
        ELSE IF shouldActivatePreviewFallback /\ config.previewFallback
        THEN config' = bypassed /\ Return("true") /\ UNCHANGED intent
        ELSE IF ~config.handler
        THEN config' = bypassed /\ Return("null") /\ UNCHANGED intent
        ELSE \/ \E i \in Intents :
                  /\ intent' = i
                  /\ CASE i = "retry_always" ->
                            /\ config' =
                                 IF shouldActivatePreviewFallback
                                 THEN activatePreviewModelFallbackMode(bypassed)
                                 ELSE activateFallbackMode(bypassed)
                            /\ Return("true")
                       [] i = "retry_once" ->
                            config' = bypassed /\ Return("true")
                       [] i = "stop" ->
                            /\ config' = activateFallbackMode(bypassed)
                            /\ Return("false")
                       [] i \in {"retry_later", "upgrade"} ->
                            config' = bypassed /\ Return("false")
                       [] OTHER -> config' = bypassed /\ Return(Caught("throw"))
             \/ /\ intent' = "throws"
                /\ config' = bypassed
                /\ Return(Caught("throw"))
  /\ UNCHANGED <<fbVersion, authType, failedModel, errorKind, env, atCall,
                 rotations, transitions, rotation, selection, fallbackModel>>
  /\ UNCHANGED fallbackOthers

\* processIntent as if retry_once switched the active model too.
SwitchesOnEveryRetry(c, i, model) ==
  CASE i \in {"retry_always", "retry_once"} ->
         [value |-> "true", config |-> [c EXCEPT !.activeModel = model]]
    [] i \in {"stop", "retry_later", "upgrade"} ->
         [value |-> "false", config |-> c]
    [] OTHER -> [value |-> "throw", config |-> c]

\* processIntent: the value returned, "throw" for an intent it does not
\* know, and the Config it leaves.
processIntent(c, i, model) ==
  CASE i = "retry_always" ->
         [value |-> "true", config |-> [c EXCEPT !.activeModel = model]]
    [] i = "retry_once" -> [value |-> "true", config |-> c]
    [] i \in {"stop", "retry_later", "upgrade"} ->
         [value |-> "false", config |-> c]
    [] OTHER -> [value |-> "throw", config |-> c]

\* The transition applied whatever the handler answered.
AppliesOnAnyIntent(i) == TRUE

\* if (intent === 'retry_always' || intent === 'retry_once')
\*   applyAvailabilityTransition(getAvailabilityContext, failureKind)
AppliesTransition(i) == i \in {"retry_always", "retry_once"}

\* The policy fallback.  The policy chain gives no candidate ("empty"), a
\* selection among the candidates that is no model, no other model or a
\* model without policy ("invalid"), or another model, with a silent or a
\* prompting action.
OAuthPolicy ==
  /\ fbPc = "oauth"
  /\ fbVersion = "policy"
  /\ IF authType # "LOGIN_WITH_GOOGLE"
     THEN /\ Return("null")
          /\ UNCHANGED <<config, intent, transitions, selection, fallbackModel>>
     ELSE \E chosen \in {"empty", "invalid", "silent", "prompt"} :
          \E model \in Models :
            /\ chosen = "empty" => model = failedModel
            /\ chosen \in {"silent", "prompt"} => model # failedModel
            /\ selection' = chosen
            /\ CASE chosen = "invalid" ->
                      /\ Return("null")
                      /\ UNCHANGED <<config, intent, transitions, fallbackModel>>
                 [] chosen = "silent" ->
                      /\ fallbackModel' = model
                      /\ transitions' = transitions + 1
                      /\ config' = processIntent(config, "retry_always",
                                                 model).config
                      /\ Return(processIntent(config, "retry_always",
                                              model).value)
                      /\ UNCHANGED intent
                 [] OTHER ->
                      /\ fallbackModel' = model
                      /\ IF ~config.handler
                         THEN /\ Return("null")
                              /\ UNCHANGED <<config, intent, transitions>>
                         ELSE \/ \E i \in Intents :
                                   LET done == processIntent(config, i, model)
                                   IN /\ intent' = i
                                      /\ transitions' =
                                           IF AppliesTransition(i)
                                           THEN transitions + 1
                                           ELSE transitions
                                      /\ config' = done.config
                                      /\ Return(Caught(done.value))
                              \/ /\ intent' = "throws"
                                 /\ Return(Caught("throw"))
                                 /\ UNCHANGED <<config, transitions>>
  /\ UNCHANGED <<fbVersion, authType, failedModel, errorKind, env, atCall,
                 rotations, rotation>>
  /\ UNCHANGED fallbackOthers

FallbackNext ==
  \/ HandleFallback
  \/ HandlerAnswers
  \/ HandlerThrows
  \/ RotateAfterHandler
  \/ Rotate
  \/ OAuthFlash
  \/ OAuthPreview
  \/ OAuthPolicy

SpecFallback == FallbackInit /\ [][FallbackNext]_vars

\* The auth types that authenticate with an API key.
KeyAuth == authType \in {"USE_GEMINI", "USE_OPENAI"}

\* C27: for the auth types USE_GEMINI and USE_OPENAI, handleFallback has
\* returned true whenever a key rotation succeeded, and it never reaches
\* the OAuth or policy fallback: the fallback mode and the active model
\* stay what they were at the call and no availability transition is
\* applied.
C27_ApiKeyAuthOnlyRotates ==
  KeyAuth =>
    /\ (fbPc = "returned" /\ rotations > 0) => fbResult = "true"
    /\ rotations > 0 => fbPc = "returned"
    /\ fbPc # "oauth"
    /\ config.fallbackMode = atCall.fallbackMode
    /\ config.previewFallback = atCall.previewFallback
    /\ config.previewBypass = atCall.previewBypass
    /\ config.activeModel = atCall.activeModel
    /\ transitions = 0

\* C27 witness: the external handler answered stop and put a new key into
\* the environment, the rotation succeeded and handleFallback returned
\* true.
C27_Witness ==
  /\ KeyAuth
  /\ intent = "stop"
  /\ rotations = 1
  /\ config.apiKey # atCall.apiKey
  /\ fbPc = "returned"
  /\ fbResult = "true"


\* C28 (as claimed): when the provider's stream is exhausted, every tool
\* call that was opened with an id and a name and for which a fragment of
\* arguments arrived has been emitted to the caller, whether or not its
\* completion boundary ever arrived.
C28_EmittedByEndOfStream ==
  \A s \in Streams :
    genPc[s] = "done" =>
      \A m \in 1..Len(events[s]) : \A i \in Indexes :
        ( /\ IsHead(kind, events[s][m], i)
          /\ \E n \in m..Len(events[s]) :
               FragmentsOf(kind, events[s][n], i) # <<>> )
        => \E pos \in Built(s) :
             /\ PartAt(s, pos).index = i
             /\ out[s][pos[1]].at >= m


\* The ids the canonical function calls of a request carry, in order, the
\* absent ones left out.
CanonicalCallIds(req) ==
  LET parts == Flatten([i \in DOMAIN req.contents |-> req.contents[i].parts])
      calls == SelectSeq(parts, LAMBDA p : ~IsText(p) /\ IsCall(p) /\ p.id # "")
  IN [i \in DOMAIN calls |-> calls[i].id]

Distinct(ids) ==
  \A i, j \in DOMAIN ids : i # j => ids[i] # ids[j]

\* Turn i is a model turn that holds one function call and nothing else,
\* and the next turn holds its answer and nothing else: a function response
\* with the id of the call, or without id when the call has none.
IsAnswered(req, i) ==
  /\ i + 1 \in DOMAIN req.contents
  /\ req.contents[i].role = "model"
  /\ Len(req.contents[i].parts) = 1
  /\ IsCall(req.contents[i].parts[1])
  /\ Len(req.contents[i + 1].parts) = 1
  /\ IsResp(req.contents[i + 1].parts[1])
  /\ req.contents[i + 1].parts[1].id = req.contents[i].parts[1].id

\* The list holds an assistant message with a tool call and a tool message
\* that carries the id of that call; the id is the canonical one when
\* there is one.
PairedInList(messages, canonicalId) ==
  \E a, t \in DOMAIN messages :
    /\ messages[t].role = "tool"
    /\ \E c \in DOMAIN messages[a].tool_calls :
         /\ messages[a].tool_calls[c].id = messages[t].tool_call_id
         /\ canonicalId # "" => messages[t].tool_call_id = canonicalId

\* C29 (as claimed): in the list the OpenAI-compatible adapter builds from
\* an array of turns whose canonical call ids are distinct, the tool-call
\* ids are pairwise distinct, and every function call that the next turn
\* answers stands in the list with a tool message that carries its id,
\* also when call and response have no id and a placeholder is used.
C29_IdsDistinctAndPaired ==
  ( /\ sendPc \in {"sent", "resent"}
    /\ adapter = "openai"
    /\ ~request.single
    /\ Distinct(CanonicalCallIds(request)) )
  => /\ Distinct(SentCallIds("openai", sent))
     /\ \A i \in DOMAIN request.contents :
          IsAnswered(request, i)
            => PairedInList(sent, request.contents[i].parts[1].id)

\* C31 (as claimed): every usage record the OpenAI-compatible adapter
\* decodes from a provider usage with a total above zero, the provider's
\* breakdown either adding up to that total or being absent so that the
\* 70/30 estimate is applied, has a prompt count and a completion count
\* that add up to its total.
C31_CountsAddUpToTotal ==
  (decodePc = "decoded" /\ decoder = "openai")
    => \A pair \in UsagePairs :
         ( /\ pair[1].present
           /\ pair[1].total_tokens > 0
           /\ \/ OnlyTotal(pair[1])
              \/ pair[1].prompt_tokens + pair[1].completion_tokens
                   = pair[1].total_tokens )
           => pair[2].promptTokenCount + pair[2].candidatesTokenCount
                = pair[2].totalTokenCount


\* The provider event itself signals the end of the message: a chunk with
\* a finish_reason, or the message stop.
EndsMessage(k, e) ==
  IF k = "openai" THEN e.choice /\ e.finish_reason # ""
  ELSE e.type = "messageStop"

\* C32 (as claimed): in a stream of any of the three generators, a response
\* whose candidate carries a finish reason other than
\* FINISH_REASON_UNSPECIFIED was emitted for an event that itself signals
\* the end of the message; the responses emitted for text deltas and for
\* completed calls at any other event carry FINISH_REASON_UNSPECIFIED.
C32_FinishReasonOnlyAtEnd ==
  \A s \in Streams : \A r \in 1..Len(out[s]) :
    ( /\ out[s][r].candidates
      /\ ~EndsMessage(kind, events[s][out[s][r].at]) )
    => out[s][r].finishReason = "FINISH_REASON_UNSPECIFIED"


\* C33: a generateStream call of the Anthropic-style adapter returns its
\* generator without having sent a provider request and without failing;
\* the one provider request is sent at the first pull; an error raised by
\* the provider is thrown to the consumer at that pull, as the object
\* raised, before any response; otherwise exactly one response is yielded
\* and the generator then ends.
C33_LazySingleResponse ==
  (callAdapter = "anthropic" /\ callOp = "generateStream" /\ callPc # "ready")
  => /\ callPc # "called"
     /\ callPc = "generator" => (attempts = 0 /\ raised = NoError)
     /\ callPc # "generator" => attempts = 1
     /\ raised # NoError
          => /\ phase = "iterate"
             /\ yielded = 0
             /\ callPc \in {"caught", "threw"}
     /\ callPc = "threw" => observed = raised
     /\ yielded <= 1
     /\ callPc \in {"yielded", "finished", "abandoned"} => yielded = 1
     /\ (callPc = "iterating" /\ yielded = 1)
          => ~ENABLED ProviderYields /\ ~ENABLED ProviderRaises

\* C33 witness: the provider request of an Anthropic-style generateStream
\* failed at the first pull; the consumer got the error and no response.
C33_Witness ==
  /\ callAdapter = "anthropic"
  /\ callOp = "generateStream"
  /\ callPc = "threw"
  /\ phase = "iterate"
  /\ attempts = 1
  /\ yielded = 0
  /\ observed = raised


\* C34: whenever tryRotateApiKey has been called, it returned true exactly
\* when the auth type is USE_GEMINI or USE_OPENAI, the key of the
\* environment is not empty after trimming, it differs from the API key
\* of the current content generator config, and refreshAuth was called and
\* resolved; and when the key of the environment is missing, blank or
\* equal to the current key, refreshAuth was not called and the result is
\* false.
C34_RotatesExactlyOnNewKey ==
  rotation.called =>
    /\ rotation.result
         <=> /\ rotation.authType \in {"USE_GEMINI", "USE_OPENAI"}
             /\ rotation.newApiKey # <<>>
             /\ rotation.newApiKey # rotation.apiKey
             /\ rotation.refreshAuth = "resolved"
    /\ (rotation.newApiKey = <<>> \/ rotation.newApiKey = rotation.apiKey)
         => (rotation.refreshAuth = "not called" /\ ~rotation.result)
    /\ rotation.result => config.apiKey = rotation.newApiKey
    /\ ~rotation.result => config.apiKey = rotation.apiKey

\* C34 witness: the environment held the current key followed by a blank;
\* tryRotateApiKey was called, did not call refreshAuth and returned false.
C34_Witness ==
  /\ rotation.called
  /\ env = <<"k", " ">>
  /\ rotation.newApiKey = rotation.apiKey
  /\ rotation.configured
  /\ rotation.refreshAuth = "not called"
  /\ ~rotation.result


\* The policy fallback ran for LOGIN_WITH_GOOGLE and has returned.
PolicyReturned ==
  /\ fbVersion = "policy"
  /\ authType = "LOGIN_WITH_GOOGLE"
  /\ fbPc = "returned"

\* C35: when the policy fallback has returned, applyAvailabilityTransition
\* was called for the failed model, once, exactly when the fallback
\* proceeded as a retry: the policy action was silent, or the UI handler
\* returned retry_always or retry_once; it was not called when the handler
\* returned stop, retry_later or upgrade, or threw, or was not consulted.
C35_TransitionIffRetry ==
  PolicyReturned =>
    /\ transitions \in {0, 1}
    /\ transitions = 1
         <=> \/ selection = "silent"
             \/ intent \in {"retry_always", "retry_once"}
    /\ (intent \in {"stop", "retry_later", "upgrade", "throws"})
         => transitions = 0
    /\ transitions = 1 => fbResult = "true"

\* C35 witness: the UI handler answered retry_once: the transition was
\* applied, the active model stayed, and handleFallback returned true.
C35_Witness ==
  /\ PolicyReturned
  /\ selection = "prompt"
  /\ intent = "retry_once"
  /\ transitions = 1
  /\ config.activeModel = atCall.activeModel
  /\ fbResult = "true"


\* What C36 says of the intents: the active model is another one than at
\* the call only after retry_always (the intent the silent action passes
\* too), and it then is the fallback model and the result is true;
\* retry_once gives true, and stop, retry_later and upgrade give false,
\* with the active model left alone.
IntentsDecide ==
  /\ config.activeModel # atCall.activeModel
       => /\ intent = "retry_always" \/ selection = "silent"
          /\ config.activeModel = fallbackModel
          /\ fbResult = "true"
  /\ (intent = "retry_always" \/ selection = "silent")
       => (config.activeModel = fallbackModel /\ fbResult = "true")
  /\ intent = "retry_once"
       => (fbResult = "true" /\ config.activeModel = atCall.activeModel)
  /\ intent \in {"stop", "retry_later", "upgrade"}
       => (fbResult = "false" /\ config.activeModel = atCall.activeModel)

\* C36 (as claimed): in the policy fallback the intents decide as above,
\* and whenever no candidate was selected (there was none, or the
\* selection gave none) or the fallback model equals the failed model, the
\* result is null and the UI handler was not consulted.
C36_NullWithoutSelection ==
  PolicyReturned =>
    /\ IntentsDecide
    /\ (selection \in {"empty", "invalid"} \/ fallbackModel = failedModel)
         => (fbResult = "null" /\ intent = "none")

\* C36 (amended): in the policy fallback the intents decide as above; when
\* there are candidates and the selection among them gives no model, the
\* failed model or a model without policy, the result is null and the UI
\* handler was not consulted; when there is no candidate at all, the
\* fallback model is the failed model and the UI handler, if there is
\* one, is consulted with it.
C36_NullOnInvalidSelection ==
  PolicyReturned =>
    /\ IntentsDecide
    /\ selection = "invalid" => (fbResult = "null" /\ intent = "none")
    /\ selection = "empty"
         => /\ fallbackModel = failedModel
            /\ config.handler <=> intent # "none"
    /\ selection \in {"silent", "prompt"} => fallbackModel # failedModel
    /\ intent # "none" => config.handler

\* C36 witness: the policy chain gave no candidate, the UI handler was
\* consulted with the failed model as fallback model and answered
\* retry_always: handleFallback returned true.
C36_Witness ==
  /\ PolicyReturned
  /\ selection = "empty"
  /\ intent = "retry_always"
  /\ fallbackModel = failedModel
  /\ config.activeModel = fallbackModel
  /\ fbResult = "true"


\* The intents each version's handling of the handler's answer knows.
KnownIntents ==
  IF fbVersion = "flash" THEN {"retry", "stop", "auth"}
  ELSE {"retry_always", "retry_once", "stop", "retry_later", "upgrade"}

\* The UI handler was consulted and failed: it threw, or it returned an
\* intent outside the known set.
HandlerFailed == intent = "throws" \/ intent \notin KnownIntents \cup {"none"}

\* C37: handleFallback never throws; when the UI handler threw or returned
\* an intent outside the known set, handleFallback returned null for
\* LOGIN_WITH_GOOGLE, and for USE_GEMINI and USE_OPENAI it went on to the
\* key rotation and returned what the rotation gave, true for a rotated
\* key and null otherwise.
C37_HandlerFailureContained ==
  /\ fbResult # "throw"
  /\ (fbPc = "returned" /\ HandlerFailed)
       => /\ authType = "LOGIN_WITH_GOOGLE" => fbResult = "null"
          /\ authType \in {"USE_GEMINI", "USE_OPENAI"}
               => /\ rotation.called
                  /\ fbResult = IF rotation.result THEN "true" ELSE "null"
  /\ (HandlerFailed /\ authType = "LOGIN_WITH_GOOGLE")
       => /\ config.activeModel = atCall.activeModel
          /\ config.fallbackMode = atCall.fallbackMode
          /\ config.previewFallback = atCall.previewFallback

\* C37 witness: in the policy fallback the UI handler returned an intent
\* that processIntent does not know; handleFallback returned null.
C37_Witness ==
  /\ PolicyReturned
  /\ intent = "auth"
  /\ fbResult = "null"
  /\ transitions = 0


(***************************************************************************)
(* validateNonInteractiveAuth: the auth type is taken from the             *)
(* environment, else from the stored settings, and validated.              *)
(***************************************************************************)
Flags == {"GOOGLE_GENAI_USE_GCA", "GOOGLE_GENAI_USE_VERTEXAI"}
Credentials ==
  {"GEMINI_API_KEY", "AWS_ACCESS_KEY_ID", "AWS_PROFILE", "AWS_REGION",
   "OPENAI_API_KEY", "ANTHROPIC_API_KEY"}
VertexSettings ==
  {"GOOGLE_CLOUD_PROJECT", "GOOGLE_CLOUD_LOCATION", "GOOGLE_API_KEY"}
EnvNames == Flags \cup Credentials \cup VertexSettings

\* The variables a .env file may set.
DotEnvNames == {"GOOGLE_API_KEY"}

\* The environments: a flag is unset, 'true' or '1', any other variable is
\* unset or set.
Environments ==
  { e \in [EnvNames -> {"", "true", "1", "v"}] :
      /\ \A n \in Flags : e[n] \in {"", "true", "1"}
      /\ \A n \in EnvNames \ Flags : e[n] \in {"", "v"} }

\* if (process.env[name])
IsSet(e, name) == e[name] # ""

getAuthTypeFromEnv(e) ==
  IF e["GOOGLE_GENAI_USE_GCA"] = "true" THEN "LOGIN_WITH_GOOGLE"
  ELSE IF e["GOOGLE_GENAI_USE_VERTEXAI"] = "true" THEN "USE_VERTEX_AI"
  ELSE IF IsSet(e, "GEMINI_API_KEY") THEN "USE_GEMINI"
  ELSE IF \/ IsSet(e, "AWS_ACCESS_KEY_ID")
          \/ IsSet(e, "AWS_PROFILE")
          \/ IsSet(e, "AWS_REGION")
  THEN "USE_BEDROCK"
  ELSE IF IsSet(e, "OPENAI_API_KEY") THEN "USE_OPENAI"
  ELSE IF IsSet(e, "ANTHROPIC_API_KEY") THEN "USE_ANTHROPIC"
  ELSE ""

\* loadEnvironment: the variables of the .env file that the environment
\* does not have are set.
loadEnvironment(e, file) ==
  [n \in EnvNames |-> IF n \in file /\ e[n] = "" THEN "v" ELSE e[n]]

\* validateAuthMethod on the loaded environment: "" for null, else the
\* first words of the message.
validateAuthMethod(authMethod, e) ==
  IF authMethod \in {"LOGIN_WITH_GOOGLE", "COMPUTE_ADC"} THEN ""
  ELSE IF authMethod = "USE_GEMINI"
  THEN (IF ~IsSet(e, "GEMINI_API_KEY") THEN "When using Gemini API" ELSE "")
  ELSE IF authMethod = "USE_VERTEX_AI"
  THEN (IF /\ ~(IsSet(e, "GOOGLE_CLOUD_PROJECT")
                  /\ IsSet(e, "GOOGLE_CLOUD_LOCATION"))
           /\ ~IsSet(e, "GOOGLE_API_KEY")
        THEN "When using Vertex AI" ELSE "")
  ELSE IF authMethod = "USE_BEDROCK"
  THEN (IF ~(\/ IsSet(e, "AWS_ACCESS_KEY_ID")
             \/ IsSet(e, "AWS_PROFILE")
             \/ IsSet(e, "AWS_REGION"))
        THEN "When using AWS Bedrock" ELSE "")
  ELSE IF authMethod = "USE_OPENAI"
  THEN (IF ~IsSet(e, "OPENAI_API_KEY")
        THEN "When using OpenAI Compatible APIs" ELSE "")
  ELSE "Invalid auth method selected."

AuthInit ==
  /\ HygIdle
  /\ SendIdle
  /\ StreamIdle
  /\ CallIdle
  /\ DecodeIdle
  /\ SchemaIdle
  /\ FallbackIdle
  /\ authPc = "called"
  /\ processEnv \in Environments
  /\ configuredAuthType \in {"", "LOGIN_WITH_GOOGLE"}
  /\ enforcedType \in {"", "USE_GEMINI"}
  /\ useExternalAuth \in BOOLEAN
  /\ envAuthType = ""
  /\ authResult = ""

\* The error is handed to handleError or logged before process.exit: the
\* function does not return.
Exit(message) ==
  /\ authPc' = "exited"
  /\ authResult' = message

\* validateNonInteractiveAuth.
ValidateNonInteractiveAuth ==
  /\ authPc = "called"
  /\ LET selected == getAuthTypeFromEnv(processEnv)
         effectiveAuthType == IF selected # "" THEN selected
                              ELSE configuredAuthType
     IN /\ envAuthType' = selected
        /\ IF enforcedType # "" /\ effectiveAuthType # enforcedType
           THEN Exit("The enforced authentication type") /\ UNCHANGED processEnv
           ELSE IF effectiveAuthType = ""
           THEN Exit("Please set an Auth method") /\ UNCHANGED processEnv
           ELSE IF useExternalAuth
           THEN /\ authPc' = "returned"
                /\ authResult' = effectiveAuthType
                /\ UNCHANGED processEnv
           ELSE \E file \in SUBSET DotEnvNames :
                  LET loaded == loadEnvironment(processEnv, file)
                      err == validateAuthMethod(effectiveAuthType, loaded)
                  IN /\ processEnv' = loaded
                     /\ IF err # "" THEN Exit(err)
                        ELSE /\ authPc' = "returned"
                             /\ authResult' = effectiveAuthType
  /\ UNCHANGED <<configuredAuthType, enforcedType, useExternalAuth>>
  /\ UNCHANGED authOthers

AuthNext == ValidateNonInteractiveAuth

SpecAuth == AuthInit /\ [][AuthNext]_vars

\* C38 (as claimed): when validateNonInteractiveAuth has run with no
\* enforced type and no external auth in an environment from which
\* getAuthTypeFromEnv selects an auth type, it has returned that auth
\* type; in particular when ANTHROPIC_API_KEY is the only credential
\* variable set.
C38_EnvSelectedTypeIsAccepted ==
  ( /\ authPc \in {"returned", "exited"}
    /\ enforcedType = ""
    /\ ~useExternalAuth
    /\ envAuthType # "" )
  => /\ authPc = "returned"
     /\ authResult = envAuthType

====
